---- MODULE Spec2Model ----
(***************************************************************************)
(* OpenThreat: the vulnerability store and its writers.                    *)
(*                                                                         *)
(*   - the four merges that write a CVE row: the NDJSON upsert             *)
(*     (backend/ingestion.py), the NVD page merge                          *)
(*     (NVDCompleteService._process_cve), the CISA KEV refresh             *)
(*     (CISAKEVService.update_exploited_vulnerabilities) and the BSI       *)
(*     enrichment (BSICertService.enrich_vulnerabilities);                 *)
(*   - the NVD backfill loop with its checkpoint file;                     *)
(*   - the LLM enrichment queue and the selection of one tick;             *)
(*   - the API's rate limit and its cached read endpoints;                 *)
(*   - the scheduled jobs and their run records, the news fetcher, the     *)
(*     two scoring functions, the connectors' deduplicator, the KEV        *)
(*     fetch and the lookup of one vulnerability by id.                    *)
(*                                                                         *)
(* Conventions.  Python None is the string "None" for text fields and -1   *)
(* for numeric fields.  JSON list columns that the code appends to are     *)
(* sequences; columns the code rebuilds with list(set(...)) are sets.      *)
(* Scores are integers in units of 1/3000, in which both scoring           *)
(* functions of the repository are exact.  Days are integers.              *)
(***************************************************************************)
EXTENDS Integers, Sequences, FiniteSets, TLC

VARIABLES
    store,      \* the vulnerabilities row of the one CVE the merge model follows
    lastOp,     \* the merge applied last and how often in a row (history)
    contributors, \* tags of the sources merged into the row so far (history)
    now,        \* the current day
    script,     \* two merges of the CVE, to be applied in both orders
    pos,        \* how many merges of the script have been applied
    left,       \* the row after script[1..pos]
    right,      \* the row after the script taken in the other order
    txn,        \* per writer: its open transaction on the CVE's row
    base,       \* the row when the current pair of transactions began
    pool,       \* the threads that run backfills in this deployment
    run,        \* per executor thread: the backfill it is running
    checkpoint, \* content of nvd_checkpoint.txt, NoNum when the file is absent
    committed,  \* upstream indices whose CVE is durably in the store
    crashes,    \* process crashes so far
    crashCommitted, \* committed, as it was at the last crash (history)
    crashCkpt,  \* checkpoint, as it was at the last crash (history)
    resumeAt,   \* start index of the first run after the last crash (history)
    vulns,      \* the rows the enrichment queue selects from, by CVE
    queue,      \* process_cve_with_llm tasks waiting in the broker
    llm,        \* per celery worker: the task it is executing
    faults,     \* how many commits of the enrichment have failed so far
    app,        \* the API process: starting, serving or failed
    clock,      \* wall-clock time of the API process, in ticks
    redis,      \* the rate-limit keys alive in Redis: key -> count and expiry
    redisUp,    \* whether Redis answers
    resp,       \* what the rate-limit middleware answered to the last request
    seen,       \* the client's requests in the current windows (history)
    table,      \* the vulnerabilities table the read endpoints query, by CVE
    cache,      \* the API's cache entries alive in Redis: key -> value and ttl
    cacheUp,    \* whether Redis answers the read endpoints
    reply,      \* what the last read answered and what the table held then
    job,        \* per job: whether it runs, its ingestion run and its result
    ingestionRuns, \* the ingestion_runs table, in the order of the inserts
    feed,       \* the article URLs the news source's feed lists, in order
    articles,   \* the committed rows of news_articles: their URLs
    news,       \* the running fetch_and_store_articles call
    fetches,    \* what each finished fetch returned and stored (history)
    dedup,      \* the records of one CVE given to the deduplicator, and its result
    kev,        \* the KEV refresh: its fetch, the rows it marked and its result
    vulnIds,    \* the cve_id values of the rows of the vulnerabilities table
    lookup      \* the last get_vulnerability request and its answer

\* ------------------------------------------------------------------ values

None == "None"
NoNum == 0 - 1

\* Python truthiness of an optional number: None and 0 are falsy.
TruthyNum(x) == x # NoNum /\ x # 0
\* Python truthiness of an optional string: None and "" are falsy.
TruthyStr(s) == s # None /\ s # ""

\* Python `a or b` on optional numbers and strings.
OrNum(a, b) == IF TruthyNum(a) THEN a ELSE b
OrStr(a, b) == IF TruthyStr(a) THEN a ELSE b

Range(s) == {s[i] : i \in 1..Len(s)}

\* list.append(x) guarded by `if x not in list`.
AppendIfAbsent(s, x) == IF x \in Range(s) THEN s ELSE Append(s, x)

\* The day the model runs at (it does not advance during a merge sequence).
Today == 100

CveId == "CVE-2024-0001"

\* A vulnerabilities row before any insert.
EmptyRow ==
    [exists |-> FALSE, title |-> None, description |-> None,
     cvss_score |-> NoNum, severity |-> None,
     published_at |-> NoNum, modified_at |-> NoNum,
     exploited_in_the_wild |-> FALSE, cisa_due_date |-> NoNum,
     cwe_ids |-> {}, references |-> <<>>, sources |-> <<>>,
     source_tags |-> <<>>, priority_score |-> 0]

\* --------------------------------------------------------------- scoring

\* round(x, 3) of a score held in units of 1/3000: the nearest multiple of 3.
Round3(x) == ((2 * x + 3) \div 6) * 3

\* NVDCompleteService._calculate_priority: 0.4 cvss + 0.2 recency + 0.4 exploit.
calculate_priority(cvss_score, severity, published_at, exploited, today) ==
    LET cvss_weight ==
            IF TruthyNum(cvss_score) THEN 12 * cvss_score
            ELSE IF severity = "CRITICAL" THEN 1200
            ELSE IF severity = "HIGH" THEN 840
            ELSE IF severity = "MEDIUM" THEN 480
            ELSE IF severity = "LOW" THEN 240
            ELSE 0
        days_old == today - published_at
        recency_weight ==
            IF published_at = NoNum THEN 0
            ELSE IF days_old <= 7 THEN 600
            ELSE IF days_old <= 30 THEN 300
            ELSE 0
        exploit_weight == IF exploited THEN 1200 ELSE 0
    IN  Round3(cvss_weight + recency_weight + exploit_weight)

\* The three terms of calculate_priority_score added up without min(score, 1.0).
calculate_priority_score_unclamped(vuln_data, today) ==
    LET exploit == IF vuln_data.exploited_in_the_wild THEN 1500 ELSE 0
        cvss == IF TruthyNum(vuln_data.cvss_score)
                THEN 12 * vuln_data.cvss_score ELSE 0
        days_old == today - vuln_data.published
        recency == IF vuln_data.published # NoNum /\ days_old < 30
                   THEN 300 - 10 * days_old ELSE 0
    IN  exploit + cvss + recency

\* ingestion.calculate_priority_score: 0.5 exploited + 0.4 cvss + 0.1 recency.
calculate_priority_score(vuln_data, today) ==
    LET exploit == IF vuln_data.exploited_in_the_wild THEN 1500 ELSE 0
        cvss == IF TruthyNum(vuln_data.cvss_score)
                THEN 12 * vuln_data.cvss_score ELSE 0
        days_old == today - vuln_data.published
        recency == IF vuln_data.published # NoNum /\ days_old < 30
                   THEN 300 - 10 * days_old ELSE 0
        score == exploit + cvss + recency
    IN  IF score < 3000 THEN score ELSE 3000

\* ingestion.normalize_severity
normalize_severity(severity) ==
    IF ~TruthyStr(severity) THEN "UNKNOWN"
    ELSE IF severity \in {"CRITICAL", "HIGH", "MEDIUM", "LOW", "UNKNOWN"}
         THEN severity
         ELSE "UNKNOWN"

\* ------------------------------------------------------------ the merges

\* ingestion.ingest_vulnerability: every column except cve_id is overwritten
\* with the incoming record's value, on update as on insert.
ingest_vulnerability(row, vuln_data, today) ==
    [exists |-> TRUE,
     title |-> OrStr(vuln_data.title, CveId),
     description |-> vuln_data.description,
     cvss_score |-> vuln_data.cvss_score,
     severity |-> normalize_severity(vuln_data.severity),
     published_at |-> vuln_data.published,
     modified_at |-> vuln_data.last_modified,
     exploited_in_the_wild |-> vuln_data.exploited_in_the_wild,
     cisa_due_date |-> vuln_data.cisa_due_date,
     cwe_ids |-> vuln_data.cwe_ids,
     references |-> vuln_data.references,
     sources |-> IF TruthyStr(vuln_data.source)
                 THEN <<vuln_data.source>> ELSE <<>>,
     source_tags |-> <<>>,
     priority_score |-> calculate_priority_score(vuln_data, today)]

\* NVDCompleteService._process_cve.  cve.id is "CVE", "GHSA" or None here.
process_cve(row, cve, today) ==
    IF ~TruthyStr(cve.id) \/ cve.id # "CVE" THEN row
    ELSE IF row.exists THEN
        LET description == OrStr(cve.description, row.description)
            cvss_score == OrNum(cve.cvss_score, row.cvss_score)
            severity == IF cve.severity # "UNKNOWN"
                        THEN cve.severity ELSE row.severity
            published_at == OrNum(cve.published, row.published_at)
            fresh == SelectSeq(cve.references,
                               LAMBDA u : u \notin Range(row.references))
        IN  [row EXCEPT
                !.description = description,
                !.cvss_score = cvss_score,
                !.severity = severity,
                !.published_at = published_at,
                !.modified_at = OrNum(cve.lastModified, row.modified_at),
                !.cwe_ids = row.cwe_ids \cup cve.cwe_ids,
                !.references = row.references \o fresh,
                !.sources = AppendIfAbsent(row.sources, "nvd"),
                !.priority_score =
                    calculate_priority(cvss_score, severity, published_at,
                                       row.exploited_in_the_wild, today)]
    ELSE
        [exists |-> TRUE,
         title |-> "Vulnerability in CVE",
         description |-> cve.description,
         cvss_score |-> cve.cvss_score,
         severity |-> cve.severity,
         published_at |-> cve.published,
         modified_at |-> cve.lastModified,
         exploited_in_the_wild |-> FALSE,
         cisa_due_date |-> NoNum,
         cwe_ids |-> cve.cwe_ids,
         references |-> cve.references,
         sources |-> <<"nvd">>,
         source_tags |-> <<>>,
         priority_score |->
             calculate_priority(cve.cvss_score, cve.severity, cve.published,
                                FALSE, today)]

\* CISAKEVService.update_exploited_vulnerabilities, the loop body for one KEV
\* entry: a CVE that has no row is counted not_found and nothing is written.
update_exploited(row, today) ==
    IF row.exists THEN
        [row EXCEPT
            !.exploited_in_the_wild = TRUE,
            !.sources = AppendIfAbsent(row.sources, "cisa_kev"),
            !.priority_score =
                calculate_priority(row.cvss_score, row.severity,
                                   row.published_at, TRUE, today)]
    ELSE row

\* BSICertService.enrich_vulnerabilities, the loop body for one CVE of one
\* advisory.
enrich_vulnerabilities(row, advisory) ==
    IF row.exists THEN
        [row EXCEPT
            !.references = AppendIfAbsent(row.references, advisory.link),
            !.sources = AppendIfAbsent(row.sources, "bsi_cert"),
            !.source_tags = Append(row.source_tags,
                                   <<"bsi_cert", advisory.description>>)]
    ELSE row

\* ---------------------------------------------------- incoming records

PublishedDay == Today - 5

\* Normalized NDJSON records of the CVE (one line of the deduplicated file).
NdjsonRecords ==
    {[title |-> None, description |-> d, cvss_score |-> c,
      severity |-> IF c = NoNum THEN None ELSE "HIGH",
      published |-> PublishedDay, last_modified |-> NoNum,
      exploited_in_the_wild |-> e,
      cisa_due_date |-> IF src = "cisa" THEN Today + 30 ELSE NoNum,
      cwe_ids |-> {},
      references |-> IF src = "cisa" THEN <<"https://cisa.gov/kev">>
                     ELSE <<"https://nvd.nist.gov/1">>,
      source |-> src] :
        d \in {None, "d1"}, c \in {NoNum, 75}, e \in BOOLEAN,
        src \in {None, "nvd_cve", "cisa"}}

\* Raw NVD API entries, already projected on the keys _process_cve reads.
NvdRecords ==
    {[id |-> "CVE", description |-> d, cvss_score |-> c,
      severity |-> IF c = NoNum THEN "UNKNOWN" ELSE "HIGH",
      published |-> PublishedDay, lastModified |-> m,
      cwe_ids |-> IF full THEN {"CWE-79"} ELSE {},
      references |-> IF full THEN <<"https://nvd.nist.gov/1">> ELSE <<>>] :
        d \in {"d1", "d2"}, c \in {NoNum, 75},
        m \in {PublishedDay, PublishedDay + 1}, full \in BOOLEAN}
    \cup
    {[id |-> i, description |-> "d1", cvss_score |-> NoNum,
      severity |-> "UNKNOWN", published |-> PublishedDay,
      lastModified |-> PublishedDay, cwe_ids |-> {}, references |-> <<>>] :
        i \in {"GHSA", None}}

\* BSI CERT-Bund advisories that name the CVE.
BsiAdvisories ==
    {[link |-> "https://wid.cert-bund.de/1", description |-> "de1"]}

\* The longest source_tags list the model follows.
MaxTags == 2

\* A merge as a value: <<kind, record>>.
MergeOps ==
    ({"ndjson"} \X NdjsonRecords) \cup ({"nvd"} \X NvdRecords)
    \cup {<<"cisa_kev", None>>} \cup ({"bsi_cert"} \X BsiAdvisories)

\* The merge a handler performs on the object it loaded.
Merge(op, row, today) ==
    CASE op[1] = "ndjson" -> ingest_vulnerability(row, op[2], today)
      [] op[1] = "nvd" -> process_cve(row, op[2], today)
      [] op[1] = "cisa_kev" -> update_exploited(row, today)
      [] op[1] = "bsi_cert" -> enrich_vulnerabilities(row, op[2])

\* The JSON columns a handler extends through the list it loaded:
\*     xs = row.col or []; xs.append(x); row.col = xs
\* ingest_vulnerability assigns the lists of the incoming record instead.
AppendedInPlace(kind) ==
    CASE kind = "nvd" -> {"references", "sources"}
      [] kind = "cisa_kev" -> {"sources"}
      [] kind = "bsi_cert" -> {"references", "sources", "source_tags"}
      [] OTHER -> {}

\* A session that tracked every change of the loaded object.
FlushTracked(loaded, merged, kind) == merged

\* What db.commit() stores of the merged object.  The columns are plain JSON
\* (models.py declares no mutable wrapper), so the session writes a column
\* when the value assigned to it differs from the value it held at the
\* assignment.  A loaded list that is not empty is extended in place and
\* assigned back: it is the same object, it compares equal to itself and the
\* column is not written.  An empty or None column makes `or []` build a new
\* list, which is written.  A new row is inserted whole.
Flush(loaded, merged, kind) ==
    IF ~loaded.exists THEN merged
    ELSE [f \in DOMAIN merged |->
            IF f \in AppendedInPlace(kind) /\ loaded[f] # <<>>
            THEN loaded[f] ELSE merged[f]]

\* One merge from the query to the commit: the row the store holds after it.
ApplyOp(op, row, today) == Flush(row, Merge(op, row, today), op[1])

Writers == {"nvd", "celery"}

IdleTxn == [pc |-> "idle", op |-> <<"none", None>>,
            snap |-> EmptyRow, pending |-> EmptyRow, failed |-> FALSE]

OrderIdle ==
    /\ script = <<>>
    /\ pos = 0
    /\ left = EmptyRow
    /\ right = EmptyRow

ConcIdle ==
    /\ txn = [w \in Writers |-> IdleTxn]
    /\ base = EmptyRow

\* The executor of api/v1/data_sources.py: ThreadPoolExecutor(max_workers=2).
MAX_WORKERS == 2
Threads == 1..MAX_WORKERS

IdleRun ==
    [pc |-> "idle", startIndex |-> 0, len |-> 0, k |-> 0, session |-> {},
     newRows |-> {}, retries |-> 0, outcome |-> "none", recordFailed |-> FALSE]

BackfillIdle ==
    /\ pool = Threads
    /\ run = [t \in Threads |-> IdleRun]
    /\ checkpoint = NoNum
    /\ committed = {}
    /\ crashes = 0
    /\ crashCommitted = {}
    /\ crashCkpt = NoNum
    /\ resumeAt = NoNum

\* CELERY_WORKERS of database.py: the processes that execute celery tasks.
CELERY_WORKERS == 2
Workers == 1..CELERY_WORKERS

IdleWorker == [pc |-> "idle", cve_id |-> None, retries |-> 0, title |-> None]

EnrichIdle ==
    /\ vulns = <<>>
    /\ queue = <<>>
    /\ llm = [w \in Workers |-> IdleWorker]
    /\ faults = 0

\* No request has been answered yet.
NoResponse ==
    [status |-> 0, checked |-> FALSE, retry_after |-> NoNum,
     remaining_minute |-> NoNum, remaining_hour |-> NoNum,
     error |-> None, logged |-> None]

NothingSeen ==
    [minute |-> NoNum, inMinute |-> 0, hour |-> NoNum, inHour |-> 0,
     before |-> 0, outage |-> FALSE]

RateIdle ==
    /\ app = "starting"
    /\ clock = 0
    /\ redis = <<>>
    /\ redisUp = TRUE
    /\ resp = NoResponse
    /\ seen = NothingSeen

\* No read has been answered.
NoReply == [op |-> "none", body |-> 0, store |-> 0, reachable |-> TRUE]

CacheIdle ==
    /\ table = <<>>
    /\ cache = <<>>
    /\ cacheUp = TRUE
    /\ reply = NoReply

\* The jobs that load data: the two celery tasks and run_ingestion.
Jobs == {"update_vulnerabilities_task", "fetch_cisa_kev_task", "run_ingestion"}

IdleJob == [pc |-> "idle", run |-> NoNum, result |-> None]

JobIdle ==
    /\ job = [j \in Jobs |-> IdleJob]
    /\ ingestionRuns = <<>>

\* No fetch_and_store_articles call is running.
IdleFetch ==
    [pc |-> "idle", i |-> 0, pending |-> <<>>, before |-> 0, faulted |-> FALSE,
     stats |-> [fetched |-> 0, new |-> 0, errors |-> 0]]

NewsIdle ==
    /\ feed = <<>>
    /\ articles = <<>>
    /\ news = IdleFetch
    /\ fetches = <<>>

DedupIdle == dedup = [records |-> <<>>, merged |-> <<>>, done |-> FALSE]

\* No KEV refresh has run.
IdleKev ==
    [pc |-> "idle", catalog |-> <<>>, start_index |-> 0, all_cves |-> <<>>,
     failed |-> FALSE, stored |-> {}, exploited |-> {},
     result |-> [status |-> None, updated |-> 0, not_found |-> 0]]

KevIdle == kev = IdleKev

\* No get_vulnerability request has been answered.
NoLookup == [requested |-> None, status |-> 0, cve_id |-> None, present |-> {}]

LookupIdle ==
    /\ vulnIds = {}
    /\ lookup = NoLookup

SideIdle == JobIdle /\ NewsIdle /\ DedupIdle /\ KevIdle /\ LookupIdle

ApiIdle == RateIdle /\ CacheIdle /\ SideIdle

backfillVars ==
    <<pool, run, checkpoint, committed, crashes, crashCommitted, crashCkpt, resumeAt>>

enrichVars == <<vulns, queue, llm, faults>>

\* The state of the API process.
cacheVars == <<table, cache, cacheUp, reply>>

jobVars == <<job, ingestionRuns>>

newsVars == <<feed, articles, news, fetches>>

lookupVars == <<vulnIds, lookup>>

sideVars == <<jobVars, newsVars, dedup, kev, lookupVars>>

apiVars == <<app, clock, redis, redisUp, resp, seen, cacheVars, sideVars>>

MergeFrame ==
    UNCHANGED <<now, script, pos, left, right, txn, base, backfillVars,
                enrichVars, apiVars>>

OrderFrame ==
    UNCHANGED <<store, lastOp, contributors, now, txn, base, backfillVars, enrichVars,
                apiVars>>

ConcFrame ==
    UNCHANGED <<lastOp, contributors, now, script, pos, left, right, backfillVars,
                enrichVars, apiVars>>

BackfillFrame ==
    UNCHANGED <<store, lastOp, contributors, now, script, pos, left, right, txn, base,
                enrichVars, apiVars>>

EnrichFrame ==
    UNCHANGED <<store, lastOp, contributors, now, script, pos, left, right, txn, base,
                backfillVars, apiVars>>

\* ------------------------------------------- sequential merges of one CVE

\* lastOp after a merge: the merge, and whether it is the second time in a row
\* that this merge is applied (1 or 2).
Applied(op) ==
    <<op[1], op[2],
      IF lastOp[1] = op[1] /\ lastOp[2] = op[2] THEN 2 ELSE 1>>

\* The tag of the source whose record the merge brings into the row, if the
\* merge touches the row at all.
SourceTag(op, row) ==
    CASE op[1] = "ndjson" ->
            IF TruthyStr(op[2].source) THEN {op[2].source} ELSE {}
      [] op[1] = "nvd" ->
            IF TruthyStr(op[2].id) /\ op[2].id = "CVE" THEN {"nvd"} ELSE {}
      [] op[1] = "cisa_kev" -> IF row.exists THEN {"cisa_kev"} ELSE {}
      [] op[1] = "bsi_cert" -> IF row.exists THEN {"bsi_cert"} ELSE {}

\* ingest_from_ndjson: one line of the file upserted and committed.
IngestUpsert(vuln_data) ==
    /\ store' = ApplyOp(<<"ndjson", vuln_data>>, store, now)
    /\ lastOp' = Applied(<<"ndjson", vuln_data>>)
    /\ contributors' = contributors \cup SourceTag(<<"ndjson", vuln_data>>, store)
    /\ MergeFrame

\* _fetch_cves_by_date_range: one entry of an NVD page merged and committed.
NvdPageMerge(cve) ==
    /\ store' = ApplyOp(<<"nvd", cve>>, store, now)
    /\ lastOp' = Applied(<<"nvd", cve>>)
    /\ contributors' = contributors \cup SourceTag(<<"nvd", cve>>, store)
    /\ MergeFrame

\* update_exploited_vulnerabilities: the CVE is in the KEV listing.
KevRefresh ==
    /\ store' = ApplyOp(<<"cisa_kev", None>>, store, now)
    /\ lastOp' = Applied(<<"cisa_kev", None>>)
    /\ contributors' = contributors \cup SourceTag(<<"cisa_kev", None>>, store)
    /\ MergeFrame

\* enrich_vulnerabilities: an advisory names the CVE.
BsiEnrich(advisory) ==
    /\ Len(store.source_tags) < MaxTags
    /\ store' = ApplyOp(<<"bsi_cert", advisory>>, store, now)
    /\ lastOp' = Applied(<<"bsi_cert", advisory>>)
    /\ contributors' = contributors \cup SourceTag(<<"bsi_cert", advisory>>, store)
    /\ MergeFrame

MergeInit ==
    /\ store = EmptyRow
    /\ lastOp = <<"none", None, 0>>
    /\ contributors = {}
    /\ now = Today
    /\ OrderIdle
    /\ ConcIdle
    /\ EnrichIdle
    /\ ApiIdle
    /\ BackfillIdle

MergeNext ==
    \/ \E vuln_data \in NdjsonRecords : IngestUpsert(vuln_data)
    \/ \E cve \in NvdRecords : NvdPageMerge(cve)
    \/ KevRefresh
    \/ \E advisory \in BsiAdvisories : BsiEnrich(advisory)

vars ==
    <<store, lastOp, contributors, now, script, pos, left, right, txn, base, backfillVars,
      enrichVars, apiVars>>

SpecMerge == MergeInit /\ [][MergeNext]_vars

\* The stored row as the claims compare it: list columns that hold sets are
\* compared as sets; updated_at is not part of the model.
View(row) ==
    [row EXCEPT !.references = Range(row.references),
                !.sources = Range(row.sources)]

\* C1: once exploited_in_the_wild is true in the store, no later merge sets
\* it back to false.
C1_ExploitedMonotonic ==
    [][store.exploited_in_the_wild => store'.exploited_in_the_wild]_vars

\* A row that is exploited and is then merged again.
C1_Witness ==
    /\ store.exists
    /\ store.exploited_in_the_wild
    /\ lastOp[1] # "cisa_kev"

C14_SourcesComplete ==
    store.exists => (contributors \subseteq Range(store.sources))

\* A scalar column holds a value: neither absent nor UNKNOWN.
HasStr(v) == v # None /\ v # "UNKNOWN"
HasNum(v) == v # NoNum

\* C15: a merge into an existing row keeps every scalar that holds a value,
\* takes the incoming value only where the row has none, and never moves
\* modified_at back.
C15_ScalarsKept ==
    [][store.exists =>
          /\ \A f \in {"title", "description", "severity"} :
                HasStr(store[f]) => store'[f] = store[f]
          /\ \A f \in {"cvss_score", "published_at"} :
                HasNum(store[f]) => store'[f] = store[f]
          /\ store'.modified_at >= store.modified_at]_vars

\* ------------------------------------- the same merges in the two orders

\* One more merge of the script is applied to each of the two rows: left takes
\* the script in order, right takes it reversed.
OrderStep ==
    /\ pos < Len(script)
    /\ pos' = pos + 1
    /\ left' = ApplyOp(script[pos + 1], left, now)
    /\ right' = ApplyOp(script[Len(script) - pos], right, now)
    /\ UNCHANGED script
    /\ OrderFrame

OrderInit ==
    /\ script \in MergeOps \X MergeOps
    /\ pos = 0
    /\ left = EmptyRow
    /\ right = EmptyRow
    /\ store = EmptyRow
    /\ lastOp = <<"none", None, 0>>
    /\ contributors = {}
    /\ now = Today
    /\ ConcIdle
    /\ EnrichIdle
    /\ ApiIdle
    /\ BackfillIdle

OrderNext == OrderStep

SpecOrder == OrderInit /\ [][OrderNext]_vars

\* C2: the records of one CVE merged in either order leave the same row.
C2_OrderIndependent ==
    (pos = Len(script)) => (View(left) = View(right))

\* The NVD record of the scenario: severity HIGH, cvss 7.5, not exploited,
\* with its reference; from the NVD service or from an NDJSON file.
IsNvdRecord(op) ==
    \/ /\ op[1] = "nvd"
       /\ op[2].id = "CVE"
       /\ op[2].cvss_score = 75
       /\ op[2].references # <<>>
    \/ /\ op[1] = "ndjson"
       /\ op[2].source = "nvd_cve"
       /\ op[2].cvss_score = 75
       /\ ~op[2].exploited_in_the_wild

\* The CISA KEV record of the scenario: the KEV refresh, or the NDJSON record
\* of the CISA connector (exploited, with due date and reference).
IsKevRecord(op) ==
    \/ op[1] = "cisa_kev"
    \/ /\ op[1] = "ndjson"
       /\ op[2].source = "cisa"
       /\ op[2].exploited_in_the_wild

\* The row the scenario expects.
MergedRow(row) ==
    /\ row.exists
    /\ row.severity = "HIGH"
    /\ row.cvss_score = 75
    /\ row.exploited_in_the_wild
    /\ row.cisa_due_date # NoNum
    /\ \E n, k \in Range(row.sources) :
          n \in {"nvd", "nvd_cve"} /\ k \in {"cisa_kev", "cisa"}
    /\ {"https://nvd.nist.gov/1", "https://cisa.gov/kev"}
          \subseteq Range(row.references)

\* C16: the NVD record and the CISA KEV record of one CVE, merged into an
\* empty store in either order, leave the one merged row of the scenario.
C16_EitherOrderMerged ==
    (pos = Len(script) /\ IsNvdRecord(script[1]) /\ IsKevRecord(script[2])) =>
        (MergedRow(left) /\ MergedRow(right))

\* --------------------------------------- two writers on the same CVE row

\* What each writer merges: the NVD thread merges page entries, a celery
\* worker runs the KEV refresh or the BSI enrichment.
WriterOps(w) ==
    IF w = "nvd" THEN {"nvd"} \X NvdRecords
    ELSE {<<"cisa_kev", None>>} \cup ({"bsi_cert"} \X BsiAdvisories)

\* The UPDATE the session flushes on commit: the columns the transaction
\* assigned a new value, on top of the row as it is now.
FlushUpdate(current, snap, pending) ==
    [f \in DOMAIN current |->
        IF pending[f] # snap[f] THEN pending[f] ELSE current[f]]

\* db.query(Vulnerability).filter(cve_id == ...).first() and the merge of the
\* loaded object, inside the writer's session (nothing is flushed yet).
TxnLoad(w, op) ==
    /\ txn[w].pc = "idle"
    /\ op[1] = "bsi_cert" => Len(store.source_tags) < MaxTags
    /\ txn' = [txn EXCEPT ![w] =
                  [pc |-> "loaded", op |-> op, snap |-> store,
                   pending |-> ApplyOp(op, store, now), failed |-> FALSE]]
    /\ base' = IF \A v \in Writers : txn[v].pc = "idle" THEN store ELSE base
    /\ UNCHANGED store
    /\ ConcFrame

\* db.commit(): an INSERT of a cve_id that another transaction has inserted
\* meanwhile violates the unique index and the transaction is rolled back.
TxnCommit(w) ==
    /\ txn[w].pc = "loaded"
    /\ LET t == txn[w]
           insert == t.pending.exists /\ ~t.snap.exists
           conflict == insert /\ store.exists
       IN  /\ store' = IF conflict THEN store
                       ELSE IF insert THEN t.pending
                       ELSE FlushUpdate(store, t.snap, t.pending)
           /\ txn' = [txn EXCEPT ![w].pc = "done", ![w].failed = conflict]
    /\ UNCHANGED base
    /\ ConcFrame

\* Both transactions have ended; the writers go on to their next merge.
TxnNextPair ==
    /\ \A w \in Writers : txn[w].pc = "done"
    /\ txn' = [w \in Writers |-> IdleTxn]
    /\ UNCHANGED <<store, base>>
    /\ ConcFrame

ConcInit ==
    /\ store = EmptyRow
    /\ lastOp = <<"none", None, 0>>
    /\ contributors = {}
    /\ now = Today
    /\ OrderIdle
    /\ ConcIdle
    /\ EnrichIdle
    /\ ApiIdle
    /\ BackfillIdle

ConcNext ==
    \/ \E w \in Writers : \E op \in WriterOps(w) : TxnLoad(w, op)
    \/ \E w \in Writers : TxnCommit(w)
    \/ TxnNextPair

SpecConc == ConcInit /\ [][ConcNext]_vars

\* The two results of running the pair one after the other.
SerialResults ==
    LET a == txn["nvd"].op
        b == txn["celery"].op
    IN  {View(ApplyOp(b, ApplyOp(a, base, now), now)),
         View(ApplyOp(a, ApplyOp(b, base, now), now))}

\* C4: two merges of the same CVE issued concurrently end in the row that
\* one of the two serial orders gives; no update of either merge is lost.
C4_Serialized ==
    (\A w \in Writers : txn[w].pc = "done") => (View(store) \in SerialResults)

\* Both writers held the row at once and both have committed.
C4_Witness ==
    /\ \A w \in Writers : txn[w].pc = "done" /\ ~txn[w].failed
    /\ txn["nvd"].snap = txn["celery"].snap
    /\ txn["nvd"].snap.exists
    /\ txn["celery"].op[1] = "cisa_kev"

\* ------------------------------------------------------ the NVD backfill

\* NVDCompleteService.RESULTS_PER_PAGE is 2000; the model pages by this many
\* entries and keeps the proportions of the upstream listing.
RESULTS_PER_PAGE == 2

\* totalResults of the upstream listing: two full pages and a half one.
TotalResults == (5 * RESULTS_PER_PAGE) \div 2

\* How often the model lets one page fail in a row, and the process crash.
MaxRetries == 6
MaxCrashes == 1

\* The entries NVD returns for startIndex: indices startIndex..startIndex+n-1.
PageLen(startIndex) ==
    IF startIndex >= TotalResults THEN 0
    ELSE IF TotalResults - startIndex < RESULTS_PER_PAGE
         THEN TotalResults - startIndex
         ELSE RESULTS_PER_PAGE

\* _load_checkpoint: the saved index, 0 when there is no file.
load_checkpoint(file) == IF file = NoNum THEN 0 ELSE file

\* A cursor one page past the entries just committed.
CheckpointIndexAhead(startIndex, len) == startIndex + len + RESULTS_PER_PAGE

\* The index _fetch_cves_by_date_range passes to _save_checkpoint.
CheckpointIndex(startIndex, len) == startIndex + len

\* _process_cve takes the insert branch when the query finds no row; the
\* session sees committed rows and its own pending ones.
IsNewRowUnchecked(i, visible) == TRUE
IsNewRow(i, visible) == i \notin visible

\* Where the except clause of the page's transaction leaves the job: it rolls
\* back and re-raises, which ends the job.
OnDbErrorSwallowed == "saved"
OnDbError == "raised"

\* trigger_nvd_fetch_all submits run_fetch to the executor and a free thread
\* starts fetch_all_cves, which loads the checkpoint.  The command line script
\* scripts/fetch_nvd_complete.py calls fetch_all_cves on its only thread.
Dispatch(t) ==
    /\ t \in pool
    /\ run[t].pc = "idle"
    /\ run' = [run EXCEPT ![t] =
                  [IdleRun EXCEPT !.pc = "fetch",
                                  !.startIndex = load_checkpoint(checkpoint)]]
    /\ resumeAt' = IF crashes > 0 /\ resumeAt = NoNum
                   THEN load_checkpoint(checkpoint) ELSE resumeAt
    /\ UNCHANGED <<pool, checkpoint, committed, crashes, crashCommitted,
                   crashCkpt>>
    /\ BackfillFrame

\* session.get succeeds: an empty page ends the loop, any other page is
\* handed to a new database session.
FetchPage(t) ==
    /\ run[t].pc = "fetch"
    /\ LET n == PageLen(run[t].startIndex)
       IN  run' = [run EXCEPT ![t].pc = IF n = 0 THEN "cleanup" ELSE "process",
                              ![t].len = n, ![t].k = 0, ![t].retries = 0,
                              ![t].session = {}, ![t].newRows = {}]
    /\ UNCHANGED <<pool, checkpoint, committed, crashes, crashCommitted,
                   crashCkpt, resumeAt>>
    /\ BackfillFrame

\* session.get or raise_for_status raises RequestException: the loop sleeps
\* 30 seconds and requests the same page again.
FetchFails(t) ==
    /\ run[t].pc = "fetch"
    /\ run[t].retries < MaxRetries
    /\ run' = [run EXCEPT ![t].retries = @ + 1]
    /\ UNCHANGED <<pool, checkpoint, committed, crashes, crashCommitted,
                   crashCkpt, resumeAt>>
    /\ BackfillFrame

\* _process_cve of the next entry of the page, in the open session.
ProcessEntry(t) ==
    /\ run[t].pc = "process"
    /\ run[t].k < run[t].len
    /\ LET i == run[t].startIndex + run[t].k
       IN  run' = [run EXCEPT
                      ![t].k = @ + 1,
                      ![t].session = @ \cup {i},
                      ![t].newRows =
                          IF IsNewRow(i, committed \cup run[t].session)
                          THEN @ \cup {i} ELSE @]
    /\ UNCHANGED <<pool, checkpoint, committed, crashes, crashCommitted,
                   crashCkpt, resumeAt>>
    /\ BackfillFrame

\* _process_cve raises on the next entry: rollback, then OnDbError.
ProcessEntryFails(t) ==
    /\ run[t].pc = "process"
    /\ run[t].k < run[t].len
    /\ run' = [run EXCEPT ![t].pc = OnDbError, ![t].session = {},
                          ![t].newRows = {}, ![t].recordFailed = TRUE]
    /\ UNCHANGED <<pool, checkpoint, committed, crashes, crashCommitted,
                   crashCkpt, resumeAt>>
    /\ BackfillFrame

\* db.commit() of the page.  It fails when a row this session inserts has
\* been inserted by another session meanwhile (unique cve_id).
CommitPage(t) ==
    /\ run[t].pc = "process"
    /\ run[t].k = run[t].len
    /\ IF run[t].newRows \cap committed = {}
       THEN /\ committed' = committed \cup run[t].session
            /\ run' = [run EXCEPT ![t].pc = "committed", ![t].session = {},
                                  ![t].newRows = {}]
       ELSE /\ committed' = committed
            /\ run' = [run EXCEPT ![t].pc = OnDbError, ![t].session = {},
                                  ![t].newRows = {}]
    /\ UNCHANGED <<pool, checkpoint, crashes, crashCommitted, crashCkpt,
                   resumeAt>>
    /\ BackfillFrame

\* db.commit() raises (connection loss): rollback, then OnDbError.
CommitFails(t) ==
    /\ run[t].pc = "process"
    /\ run[t].k = run[t].len
    /\ run' = [run EXCEPT ![t].pc = OnDbError, ![t].session = {},
                          ![t].newRows = {}]
    /\ UNCHANGED <<pool, checkpoint, committed, crashes, crashCommitted,
                   crashCkpt, resumeAt>>
    /\ BackfillFrame

\* refresh_stats_cache(db): it catches its own errors and returns.
RefreshStats(t) ==
    /\ run[t].pc = "committed"
    /\ run' = [run EXCEPT ![t].pc = "refreshed"]
    /\ UNCHANGED <<pool, checkpoint, committed, crashes, crashCommitted,
                   crashCkpt, resumeAt>>
    /\ BackfillFrame

\* _save_checkpoint(checkpoint_file, startIndex + len(vulnerabilities)).
SaveCheckpoint(t) ==
    /\ run[t].pc = "refreshed"
    /\ checkpoint' = CheckpointIndex(run[t].startIndex, run[t].len)
    /\ run' = [run EXCEPT ![t].pc = "saved"]
    /\ UNCHANGED <<pool, committed, crashes, crashCommitted, crashCkpt,
                   resumeAt>>
    /\ BackfillFrame

\* The end of the loop body: break when the listing is exhausted, else move
\* startIndex to the next page.
NextPage(t) ==
    /\ run[t].pc = "saved"
    /\ run' = [run EXCEPT
                  ![t].pc = IF run[t].startIndex + run[t].len >= TotalResults
                            THEN "cleanup" ELSE "fetch",
                  ![t].startIndex =
                      IF run[t].startIndex + run[t].len >= TotalResults
                      THEN @ ELSE @ + RESULTS_PER_PAGE]
    /\ UNCHANGED <<pool, checkpoint, committed, crashes, crashCommitted,
                   crashCkpt, resumeAt>>
    /\ BackfillFrame

\* fetch_all_cves after the loop: the checkpoint file is removed.
Cleanup(t) ==
    /\ run[t].pc = "cleanup"
    /\ checkpoint' = NoNum
    /\ run' = [run EXCEPT ![t] = [IdleRun EXCEPT !.outcome = "done",
                                  !.recordFailed = run[t].recordFailed]]
    /\ UNCHANGED <<pool, committed, crashes, crashCommitted, crashCkpt,
                   resumeAt>>
    /\ BackfillFrame

\* The exception leaves fetch_all_cves: the thread is free again and the
\* checkpoint file stays.
JobRaises(t) ==
    /\ run[t].pc = "raised"
    /\ run' = [run EXCEPT ![t] = [IdleRun EXCEPT !.outcome = "raised",
                                  !.recordFailed = run[t].recordFailed]]
    /\ UNCHANGED <<pool, checkpoint, committed, crashes, crashCommitted,
                   crashCkpt, resumeAt>>
    /\ BackfillFrame

\* The process dies: every thread and open session is lost, the store and
\* the checkpoint file stay as they are.
Crash ==
    /\ crashes < MaxCrashes
    /\ \E t \in Threads : run[t].pc # "idle"
    /\ crashes' = crashes + 1
    /\ run' = [t \in Threads |-> [IdleRun EXCEPT !.outcome = "crashed"]]
    /\ crashCommitted' = committed
    /\ crashCkpt' = checkpoint
    /\ resumeAt' = NoNum
    /\ UNCHANGED <<pool, checkpoint, committed>>
    /\ BackfillFrame

BackfillInit ==
    /\ store = EmptyRow
    /\ lastOp = <<"none", None, 0>>
    /\ contributors = {}
    /\ now = Today
    /\ OrderIdle
    /\ ConcIdle
    /\ EnrichIdle
    /\ ApiIdle
    /\ BackfillIdle

BackfillNext ==
    \/ \E t \in Threads : Dispatch(t)
    \/ \E t \in Threads : FetchPage(t)
    \/ \E t \in Threads : FetchFails(t)
    \/ \E t \in Threads : ProcessEntry(t)
    \/ \E t \in Threads : ProcessEntryFails(t)
    \/ \E t \in Threads : CommitPage(t)
    \/ \E t \in Threads : CommitFails(t)
    \/ \E t \in Threads : RefreshStats(t)
    \/ \E t \in Threads : SaveCheckpoint(t)
    \/ \E t \in Threads : NextPage(t)
    \/ \E t \in Threads : Cleanup(t)
    \/ \E t \in Threads : JobRaises(t)
    \/ Crash

\* The backfill behind the API: the executor's threads share the service,
\* the store and the checkpoint file.
SpecBackfill == BackfillInit /\ [][BackfillNext]_vars

\* The backfill run from the command line: one run at a time.
ScriptInit ==
    /\ store = EmptyRow
    /\ lastOp = <<"none", None, 0>>
    /\ contributors = {}
    /\ now = Today
    /\ OrderIdle
    /\ ConcIdle
    /\ EnrichIdle
    /\ ApiIdle
    /\ pool = {1}
    /\ run = [t \in Threads |-> IdleRun]
    /\ checkpoint = NoNum
    /\ committed = {}
    /\ crashes = 0
    /\ crashCommitted = {}
    /\ crashCkpt = NoNum
    /\ resumeAt = NoNum

SpecScript == ScriptInit /\ [][BackfillNext]_vars

Running == {t \in Threads : run[t].pc # "idle"}

\* C5: at most one worker runs the full NVD backfill at a time; a second
\* dispatch while a run is in progress does no work.
C5_SingleFlight == Cardinality(Running) <= 1

\* Two dispatches of the backfill are at work on the same listing.
C5_Witness ==
    \E t, u \in Threads :
        /\ t # u
        /\ run[t].pc = "process"
        /\ run[u].pc = "process"
        /\ run[t].startIndex = run[u].startIndex

\* C7: every upstream index below the persisted cursor is durably merged, at
\* every moment, crashes and storage failures included.
C7_CursorBehindCommit ==
    checkpoint # NoNum => \A i \in 0..(checkpoint - 1) : i \in committed

\* A cursor past the first page survives a crash that lost an open session.
C7_Witness ==
    /\ crashes > 0
    /\ crashCkpt >= RESULTS_PER_PAGE
    /\ checkpoint = crashCkpt
    /\ \E t \in Threads : run[t].pc = "fetch" /\ run[t].startIndex = checkpoint

\* The crash came when exactly the first two pages were committed, and a run
\* has been started since.
AfterSecondPageCrash ==
    /\ crashes > 0
    /\ crashCommitted = 0..(2 * RESULTS_PER_PAGE - 1)
    /\ resumeAt # NoNum

\* C8 as stated: after a crash that follows the commit of the second page the
\* resumed run starts at index 2 * RESULTS_PER_PAGE (4000 for pages of 2000).
C8_ResumeAtSecondPageEnd ==
    AfterSecondPageCrash => resumeAt = 2 * RESULTS_PER_PAGE

\* No run inserts a row for a CVE that was in the store at the crash.
NoReinsert == \A t \in Threads : run[t].newRows \cap crashCommitted = {}

\* C8 as amended: the resumed run starts at the cursor the crash left, which
\* is 2 * RESULTS_PER_PAGE when the second page's checkpoint had been saved
\* and RESULTS_PER_PAGE when the crash fell between that page's commit and
\* its checkpoint; merging the CVEs already in the store inserts no row.
C8_ResumeAtSavedCursor ==
    /\ AfterSecondPageCrash =>
          /\ resumeAt = load_checkpoint(crashCkpt)
          /\ resumeAt \in {RESULTS_PER_PAGE, 2 * RESULTS_PER_PAGE}
          /\ crashCkpt = 2 * RESULTS_PER_PAGE
                => resumeAt = 2 * RESULTS_PER_PAGE
    /\ NoReinsert

\* The resumed run has merged a page of entries that were all in the store
\* at the crash.
C8_Witness ==
    /\ AfterSecondPageCrash
    /\ \E t \in Threads :
          /\ run[t].pc = "process"
          /\ run[t].k = run[t].len
          /\ run[t].session \subseteq crashCommitted

\* Retry(total=5) of Data_Sample_Connectors/common.py, the only retry cap the
\* repository states.
RETRY_TOTAL == 5

\* C9: a page that keeps failing is retried at most a capped number of times.
C9_RetriesCapped == \A t \in Threads : run[t].retries <= RETRY_TOTAL

\* C10: a failure while merging one record does not abort the job.
C10_RecordFailureKeepsJob ==
    \A t \in Threads : run[t].recordFailed => run[t].pc # "raised"

\* ------------------------------------------------ the LLM enrichment queue

\* The rows the queue selects from.  priority_score is what the NVD merge
\* stored for the row.
VulnRow(cvss_score, severity, published_at, exploited) ==
    [severity |-> severity, published_at |-> published_at,
     exploited_in_the_wild |-> exploited,
     priority_score |->
         calculate_priority(cvss_score, severity, published_at, exploited, Today),
     llm_processed |-> FALSE, llm_processed_at |-> NoNum,
     simple_title |-> None]

Vulnerabilities ==
    [a |-> VulnRow(75, "HIGH", Today - 400, TRUE),
     b |-> VulnRow(98, "CRITICAL", Today - 20, FALSE),
     c |-> VulnRow(31, "LOW", Today - 365, FALSE)]

\* max_retries of the process_cve_with_llm task.
MAX_TASK_RETRIES == 3

\* The longest broker queue and the largest batch the model follows.
MaxQueue == 2
MaxBatch == 2

\* How many commits the model lets fail.
MaxFaults == 1

Priorities == {"high", "medium", "low"}

\* The filter process_llm_queue puts on the unprocessed rows.
PriorityFilter(row, priority, today) ==
    CASE priority = "high" ->
            \/ row.exploited_in_the_wild
            \/ row.severity = "CRITICAL"
            \/ (row.published_at # NoNum /\ row.published_at >= today - 7)
      [] priority = "medium" ->
            \/ row.severity = "HIGH"
            \/ (row.published_at # NoNum /\ row.published_at >= today - 30)
      [] OTHER -> TRUE

Unprocessed(rows, priority, today) ==
    {id \in DOMAIN rows :
        ~rows[id].llm_processed /\ PriorityFilter(rows[id], priority, today)}

\* A query without the order_by: any batch_size of the eligible rows.
SelectUnordered(rows, batch_size, priority, today) ==
    LET eligible == Unprocessed(rows, priority, today)
        n == IF Cardinality(eligible) < batch_size
             THEN Cardinality(eligible) ELSE batch_size
    IN  {q \in [1..n -> eligible] : \A i, j \in 1..n : i < j => q[i] # q[j]}

\* query.order_by(priority_score.desc()).limit(batch_size).all(): the lists
\* the database can return (rows of equal score come in any order).
SelectBatch(rows, batch_size, priority, today) ==
    LET eligible == Unprocessed(rows, priority, today)
        n == IF Cardinality(eligible) < batch_size
             THEN Cardinality(eligible) ELSE batch_size
    IN  {q \in [1..n -> eligible] :
            /\ \A i, j \in 1..n : i < j =>
                  /\ q[i] # q[j]
                  /\ rows[q[i]].priority_score >= rows[q[j]].priority_score
            /\ \A id \in eligible \ Range(q) : \A i \in 1..n :
                  rows[q[i]].priority_score >= rows[id].priority_score}

Task(cve_id, retries) == [cve_id |-> cve_id, retries |-> retries]

\* process_llm_queue: one process_cve_with_llm task is queued for every row
\* of the batch.
Tick(batch_size, priority) ==
    /\ \E q \in SelectBatch(vulns, batch_size, priority, now) :
          /\ q # <<>>
          /\ Len(queue) + Len(q) <= MaxQueue
          /\ queue' = queue \o [i \in 1..Len(q) |-> Task(q[i], 0)]
    /\ UNCHANGED <<vulns, llm, faults>>
    /\ EnrichFrame

\* process_cve_with_llm on a row that is already processed: skipped.
TaskSkipped(w) ==
    /\ llm[w].pc = "idle"
    /\ queue # <<>>
    /\ vulns[Head(queue).cve_id].llm_processed
    /\ queue' = Tail(queue)
    /\ UNCHANGED <<vulns, llm, faults>>
    /\ EnrichFrame

\* process_cve_with_llm on an unprocessed row: generate_cve_summary is called.
StartSummary(w) ==
    /\ llm[w].pc = "idle"
    /\ queue # <<>>
    /\ ~vulns[Head(queue).cve_id].llm_processed
    /\ llm' = [llm EXCEPT ![w] =
                  [pc |-> "summarizing", cve_id |-> Head(queue).cve_id,
                   retries |-> Head(queue).retries, title |-> None]]
    /\ queue' = Tail(queue)
    /\ UNCHANGED <<vulns, faults>>
    /\ EnrichFrame

\* generate_cve_summary returns a summary.
SummaryReturns(w) ==
    /\ llm[w].pc = "summarizing"
    /\ llm' = [llm EXCEPT ![w].pc = "writing", ![w].title = "simple"]
    /\ UNCHANGED <<vulns, queue, faults>>
    /\ EnrichFrame

\* generate_cve_summary raises: the title and the description stay None.
SummaryFails(w) ==
    /\ llm[w].pc = "summarizing"
    /\ llm' = [llm EXCEPT ![w].pc = "writing", ![w].title = None]
    /\ UNCHANGED <<vulns, queue, faults>>
    /\ EnrichFrame

\* A write-back that marks the row only when the summarizer gave a title.
mark_processed_on_summary(row, simple_title, utcnow) ==
    [row EXCEPT !.simple_title = simple_title,
                !.llm_processed = (simple_title # None),
                !.llm_processed_at = utcnow]

\* The assignments process_cve_with_llm makes before its commit: the same
\* ones after a summary and after the fallback.
mark_processed(row, simple_title, utcnow) ==
    [row EXCEPT !.simple_title = simple_title,
                !.llm_processed = TRUE,
                !.llm_processed_at = utcnow]

\* The result is written to the row and committed.
WriteBack(w) ==
    /\ llm[w].pc = "writing"
    /\ vulns' = [vulns EXCEPT ![llm[w].cve_id] =
                    mark_processed(@, llm[w].title, now)]
    /\ llm' = [llm EXCEPT ![w] = IdleWorker]
    /\ UNCHANGED <<queue, faults>>
    /\ EnrichFrame

\* db.commit() raises: rollback, and self.retry queues the task again until
\* max_retries is used up.
WriteBackFails(w) ==
    /\ llm[w].pc = "writing"
    /\ Len(queue) < MaxQueue
    /\ faults < MaxFaults
    /\ faults' = faults + 1
    /\ queue' = IF llm[w].retries < MAX_TASK_RETRIES
                THEN Append(queue, Task(llm[w].cve_id, llm[w].retries + 1))
                ELSE queue
    /\ llm' = [llm EXCEPT ![w] = IdleWorker]
    /\ UNCHANGED vulns
    /\ EnrichFrame

EnrichInit ==
    /\ store = EmptyRow
    /\ lastOp = <<"none", None, 0>>
    /\ contributors = {}
    /\ now = Today
    /\ OrderIdle
    /\ ConcIdle
    /\ BackfillIdle
    /\ ApiIdle
    /\ vulns = Vulnerabilities
    /\ queue = <<>>
    /\ llm = [w \in Workers |-> IdleWorker]
    /\ faults = 0

EnrichNext ==
    \/ \E batch_size \in 1..MaxBatch : \E priority \in Priorities :
          Tick(batch_size, priority)
    \/ \E w \in Workers : TaskSkipped(w)
    \/ \E w \in Workers : StartSummary(w)
    \/ \E w \in Workers : SummaryReturns(w)
    \/ \E w \in Workers : SummaryFails(w)
    \/ \E w \in Workers : WriteBack(w)
    \/ \E w \in Workers : WriteBackFails(w)

SpecEnrich == EnrichInit /\ [][EnrichNext]_vars

\* The workers whose summarizer call for the CVE has not written back yet.
InFlight(cve_id) ==
    {w \in Workers : llm[w].pc # "idle" /\ llm[w].cve_id = cve_id}

\* C6: for each CVE at most one enrichment is in flight at a time.
C6_OneInFlightPerCve ==
    \A cve_id \in DOMAIN vulns : Cardinality(InFlight(cve_id)) <= 1

\* The tasks a step of process_llm_queue has put on the queue: the ones of a
\* retry carry a retry count.
QueuedByTick ==
    IF Len(queue') > Len(queue)
    THEN {queue'[i].cve_id : i \in {j \in (Len(queue) + 1)..Len(queue') :
                                        queue'[j].retries = 0}}
    ELSE {}

\* C17: a finished enrichment attempt, with a summary or with the fallback,
\* leaves llm_processed true and llm_processed_at set; a processed CVE stays
\* processed and no later tick of the queue selects it.
C17_ProcessedOnceForGood ==
    [][\A cve_id \in DOMAIN vulns :
          /\ (vulns'[cve_id] # vulns[cve_id]) =>
                 /\ vulns'[cve_id].llm_processed
                 /\ vulns'[cve_id].llm_processed_at # NoNum
          /\ vulns[cve_id].llm_processed =>
                 /\ vulns'[cve_id].llm_processed
                 /\ cve_id \notin QueuedByTick]_vars

\* The fallback has marked a and a summary has marked b, and a tick that
\* came after has queued c alone.
C17_Witness ==
    /\ DOMAIN vulns = {"a", "b", "c"}
    /\ vulns.a.llm_processed /\ vulns.a.simple_title = None
    /\ vulns.a.llm_processed_at # NoNum
    /\ vulns.b.llm_processed /\ vulns.b.simple_title # None
    /\ queue = <<Task("c", 0)>>

\* ------------------------------------------ one tick over ten unprocessed CVEs

\* Three exploited CVEs, two CRITICAL ones that are not exploited, and five
\* LOW ones published a year ago.
ExploitedIds == {"e1", "e2", "e3"}
CriticalIds == {"k1", "k2"}
LowIds == {"l1", "l2", "l3", "l4", "l5"}

\* The rows the three kinds can be: a score with its severity, and a day of
\* publication within the last week or long ago.
PublishedDays == {Today - 400, Today - 3}
ExploitedRows ==
    {VulnRow(20, "LOW", d, TRUE) : d \in PublishedDays}
        \cup {VulnRow(75, "HIGH", d, TRUE) : d \in PublishedDays}
CriticalRows ==
    {VulnRow(90, "CRITICAL", d, FALSE) : d \in PublishedDays}
        \cup {VulnRow(100, "CRITICAL", d, FALSE) : d \in PublishedDays}
LowRow == VulnRow(31, "LOW", Today - 365, FALSE)

\* batch = 4: one more than there are exploited CVEs.
ScenarioBatch == Cardinality(ExploitedIds) + 1

\* process_llm_queue(batch_size = 4, priority = "high") on an empty queue.
ScenarioTick ==
    /\ queue = <<>>
    /\ \E q \in SelectBatch(vulns, ScenarioBatch, "high", now) :
          /\ q # <<>>
          /\ queue' = [i \in 1..Len(q) |-> Task(q[i], 0)]
    /\ UNCHANGED <<vulns, llm, faults>>
    /\ EnrichFrame

ScenarioInit ==
    /\ store = EmptyRow
    /\ lastOp = <<"none", None, 0>>
    /\ contributors = {}
    /\ now = Today
    /\ OrderIdle
    /\ ConcIdle
    /\ BackfillIdle
    /\ ApiIdle
    /\ \E e1, e2, e3 \in ExploitedRows : \E k1, k2 \in CriticalRows :
          vulns = [e1 |-> e1, e2 |-> e2, e3 |-> e3, k1 |-> k1, k2 |-> k2,
                   l1 |-> LowRow, l2 |-> LowRow, l3 |-> LowRow,
                   l4 |-> LowRow, l5 |-> LowRow]
    /\ queue = <<>>
    /\ llm = [w \in Workers |-> IdleWorker]
    /\ faults = 0

ScenarioNext == ScenarioTick

SpecSelect == ScenarioInit /\ [][ScenarioNext]_vars

\* The CVEs the tick has queued.
Selected == {queue[i].cve_id : i \in 1..Len(queue)}

\* The CRITICAL CVEs no other CRITICAL one outscores.
TopCritical ==
    {k \in CriticalIds : \A other \in CriticalIds :
        vulns[k].priority_score >= vulns[other].priority_score}

\* C18: of the ten CVEs the tick selects exactly the three exploited ones
\* plus the CRITICAL one with the highest priority_score.
C18_ExploitedPlusTopCritical ==
    (queue # <<>>) =>
        \E k \in TopCritical : Selected = ExploitedIds \cup {k}

ExploitedOutscoreCritical ==
    \A e \in ExploitedIds : \A k \in CriticalIds :
        vulns[e].priority_score > vulns[k].priority_score

\* C18 as the code has it: the tick selects no LOW CVE but the four of the
\* five exploited or CRITICAL ones that score highest, in the order of their
\* scores; these are the three exploited ones plus the highest CRITICAL one
\* when every exploited CVE outscores the CRITICAL ones.
C18_HighestScoresSelected ==
    (queue # <<>>) =>
        /\ Len(queue) = ScenarioBatch
        /\ Cardinality(Selected) = ScenarioBatch
        /\ Selected \subseteq ExploitedIds \cup CriticalIds
        /\ \A i, j \in 1..Len(queue) : i < j =>
              vulns[queue[i].cve_id].priority_score
                  >= vulns[queue[j].cve_id].priority_score
        /\ \A x \in Selected : \A y \in (ExploitedIds \cup CriticalIds) \ Selected :
              vulns[x].priority_score >= vulns[y].priority_score
        /\ ExploitedOutscoreCritical =>
              \E k \in TopCritical : Selected = ExploitedIds \cup {k}

\* The tick has run on a population whose exploited CVEs outscore the
\* CRITICAL ones, which differ in score.
C18_Witness ==
    /\ queue # <<>>
    /\ DOMAIN vulns = ExploitedIds \cup CriticalIds \cup LowIds
    /\ ExploitedOutscoreCritical
    /\ vulns.k1.priority_score > vulns.k2.priority_score
    /\ Selected = ExploitedIds \cup {"k1"}

\* ------------------------------------------- the API's rate-limit middleware

\* RATE_LIMIT_PER_MINUTE and RATE_LIMIT_PER_HOUR default to 60 and 1000; the
\* model keeps the hour ceiling more than two above the minute ceiling and
\* below what the minutes of an hour admit together.
RATE_LIMIT_PER_MINUTE == 2
RATE_LIMIT_PER_HOUR == 5

\* The clock: ticks in a minute, minutes in an hour, and the last tick.
TicksPerMinute == 2
MinutesPerHour == 3
MaxClock == 7

\* How many requests beyond the minute ceiling the client sends in a minute.
MaxOver == 2

\* The Retry-After header of the 429 answer.
RETRY_AFTER == 60

\* now.strftime('%Y%m%d%H%M') and now.strftime('%Y%m%d%H').
MinuteOf(t) == t \div TicksPerMinute
HourOf(t) == t \div (TicksPerMinute * MinutesPerHour)

\* A minute key that does not name its minute.
MinuteKeyUnlabelled(t) == <<"minute", 0>>

\* minute_key and hour_key of check_rate_limit (for the one client).
MinuteKey(t) == <<"minute", MinuteOf(t)>>
HourKey(t) == <<"hour", HourOf(t)>>

\* pipe.expire(minute_key, 60) and pipe.expire(hour_key, 3600).
MinuteTtl == TicksPerMinute
HourTtl == TicksPerMinute * MinutesPerHour

\* Redis INCR key; EXPIRE key ttl.
IncrExpire(keys, key, ttl, t) ==
    [k \in DOMAIN keys \cup {key} |->
        IF k = key
        THEN [n |-> IF key \in DOMAIN keys THEN keys[key].n + 1 ELSE 1,
              expires |-> t + ttl]
        ELSE keys[k]]

\* The keys Redis still holds at time t.
Alive(keys, t) ==
    [k \in {j \in DOMAIN keys : keys[j].expires > t} |-> keys[k]]

Max0(x) == IF x > 0 THEN x ELSE 0

\* A check that refuses the request when Redis raises.
check_rate_limit_closed(keys, up, t) ==
    [allowed |-> FALSE, keys |-> keys,
     remaining_minute |-> 0, remaining_hour |-> 0,
     error |-> "rate_limiter_unavailable", logged |-> "error"]

\* RedisRateLimiter.check_rate_limit's except branch: fail open.
check_rate_limit_failed(keys, up, t) ==
    [allowed |-> TRUE, keys |-> keys,
     remaining_minute |-> RATE_LIMIT_PER_MINUTE,
     remaining_hour |-> RATE_LIMIT_PER_HOUR,
     error |-> "rate_limiter_unavailable", logged |-> "error"]

\* A check that counts like check_rate_limit but refuses the request that
\* reaches the ceiling.
check_rate_limit_strict(keys, up, t) ==
    LET minute_key == MinuteKey(t)
        hour_key == HourKey(t)
        after == IncrExpire(IncrExpire(keys, minute_key, MinuteTtl, t),
                            hour_key, HourTtl, t)
    IN  [allowed |-> /\ after[minute_key].n < RATE_LIMIT_PER_MINUTE
                     /\ after[hour_key].n < RATE_LIMIT_PER_HOUR,
         keys |-> after,
         remaining_minute |-> Max0(RATE_LIMIT_PER_MINUTE - after[minute_key].n),
         remaining_hour |-> Max0(RATE_LIMIT_PER_HOUR - after[hour_key].n),
         error |-> None, logged |-> None]

\* RedisRateLimiter.check_rate_limit with Redis answering: both counters are
\* incremented, then compared with their ceilings.
check_rate_limit_counted(keys, up, t) ==
    LET minute_key == MinuteKey(t)
        hour_key == HourKey(t)
        after == IncrExpire(IncrExpire(keys, minute_key, MinuteTtl, t),
                            hour_key, HourTtl, t)
        minute_count == after[minute_key].n
        hour_count == after[hour_key].n
    IN  [allowed |-> ~(minute_count > RATE_LIMIT_PER_MINUTE)
                     /\ ~(hour_count > RATE_LIMIT_PER_HOUR),
         keys |-> after,
         remaining_minute |-> Max0(RATE_LIMIT_PER_MINUTE - minute_count),
         remaining_hour |-> Max0(RATE_LIMIT_PER_HOUR - hour_count),
         error |-> None,
         logged |-> IF minute_count > RATE_LIMIT_PER_MINUTE
                       \/ hour_count > RATE_LIMIT_PER_HOUR
                    THEN "warning" ELSE None]

\* RedisRateLimiter.check_rate_limit
check_rate_limit(keys, up, t) ==
    IF up THEN check_rate_limit_counted(keys, up, t)
    ELSE check_rate_limit_failed(keys, up, t)

\* redis_rate_limit_middleware, after the check: the 429 answer or the
\* handler's answer with the rate-limit headers.
Answer(check) ==
    [status |-> IF check.allowed THEN 200 ELSE 429,
     checked |-> TRUE,
     retry_after |-> IF check.allowed THEN NoNum ELSE RETRY_AFTER,
     remaining_minute |-> check.remaining_minute,
     remaining_hour |-> check.remaining_hour,
     error |-> check.error,
     logged |-> check.logged]

\* The client's requests in the windows of time t, this one included.
Seen(s, t, up) ==
    LET sameMinute == s.minute = MinuteOf(t)
        sameHour == s.hour = HourOf(t)
    IN  [minute |-> MinuteOf(t),
         inMinute |-> IF sameMinute THEN s.inMinute + 1 ELSE 1,
         hour |-> HourOf(t),
         inHour |-> IF sameHour THEN s.inHour + 1 ELSE 1,
         before |-> IF sameMinute THEN s.before
                    ELSE IF s.minute = MinuteOf(t) - 1
                         THEN s.inMinute ELSE 0,
         outage |-> (sameHour /\ s.outage) \/ ~up]

RateFrame ==
    UNCHANGED <<store, lastOp, contributors, now, script, pos, left, right, txn, base,
                backfillVars, enrichVars, cacheVars, sideVars>>

\* The module is imported: RedisRateLimiter.__init__ pings Redis.
Startup ==
    /\ app = "starting"
    /\ redisUp
    /\ app' = "serving"
    /\ UNCHANGED <<clock, redis, redisUp, resp, seen>>
    /\ RateFrame

\* The ping raises ConnectionError and the import fails.
StartupFails ==
    /\ app = "starting"
    /\ ~redisUp
    /\ app' = "failed"
    /\ UNCHANGED <<clock, redis, redisUp, resp, seen>>
    /\ RateFrame

\* The process is started again.
Restart ==
    /\ app = "failed"
    /\ app' = "starting"
    /\ UNCHANGED <<clock, redis, redisUp, resp, seen>>
    /\ RateFrame

\* A request of the client to a rate-limited path.
ApiRequest ==
    /\ app = "serving"
    /\ seen.minute = MinuteOf(clock) =>
          seen.inMinute < RATE_LIMIT_PER_MINUTE + MaxOver
    /\ LET check == check_rate_limit(Alive(redis, clock), redisUp, clock)
       IN  /\ redis' = check.keys
           /\ resp' = Answer(check)
    /\ seen' = Seen(seen, clock, redisUp)
    /\ UNCHANGED <<app, clock, redisUp>>
    /\ RateFrame

\* A request to one of skip_paths: no check, no headers.
SkippedRequest ==
    /\ app = "serving"
    /\ resp' = [NoResponse EXCEPT !.status = 200]
    /\ UNCHANGED <<app, clock, redis, redisUp, seen>>
    /\ RateFrame

\* Time passes; Redis drops the keys whose TTL has run out.
ClockTick ==
    /\ clock < MaxClock
    /\ clock' = clock + 1
    /\ redis' = Alive(redis, clock + 1)
    /\ UNCHANGED <<app, redisUp, resp, seen>>
    /\ RateFrame

RedisGoesDown ==
    /\ redisUp
    /\ redisUp' = FALSE
    /\ UNCHANGED <<app, clock, redis, resp, seen>>
    /\ RateFrame

RedisComesBack ==
    /\ ~redisUp
    /\ redisUp' = TRUE
    /\ UNCHANGED <<app, clock, redis, resp, seen>>
    /\ RateFrame

RateInit ==
    /\ store = EmptyRow
    /\ lastOp = <<"none", None, 0>>
    /\ contributors = {}
    /\ now = Today
    /\ OrderIdle
    /\ ConcIdle
    /\ EnrichIdle
    /\ BackfillIdle
    /\ RateIdle
    /\ CacheIdle
    /\ SideIdle

RateNext ==
    \/ Startup
    \/ StartupFails
    \/ Restart
    \/ ApiRequest
    \/ SkippedRequest
    \/ ClockTick
    \/ RedisGoesDown
    \/ RedisComesBack

SpecRate == RateInit /\ [][RateNext]_vars

\* C11, as stated: the n-th request of the client in a minute window is
\* allowed if and only if n is at most the minute ceiling.
C11_AllowedIffWithinCeiling ==
    (resp.checked /\ ~seen.outage) =>
        ((resp.status = 200) <=> (seen.inMinute <= RATE_LIMIT_PER_MINUTE))

\* C11: with Redis answering throughout the hour, a request is allowed if and
\* only if it is within the ceiling of its minute window and within the
\* ceiling of its hour window.
C11_AllowedIffWithinBothCeilings ==
    (resp.checked /\ ~seen.outage) =>
        ((resp.status = 200) <=>
            /\ seen.inMinute <= RATE_LIMIT_PER_MINUTE
            /\ seen.inHour <= RATE_LIMIT_PER_HOUR)

\* The first request beyond the minute ceiling has been refused.
C11_Witness ==
    /\ resp.checked
    /\ ~seen.outage
    /\ seen.inMinute = RATE_LIMIT_PER_MINUTE + 1
    /\ seen.inHour <= RATE_LIMIT_PER_HOUR
    /\ resp.status = 429

\* C12: the request after the ceiling-th of one minute is refused with
\* Retry-After 60 and no requests remaining in the minute, and the client's
\* first request of the next minute is allowed.
C12_WindowScenario ==
    (resp.checked /\ ~seen.outage) =>
        /\ (seen.inMinute = RATE_LIMIT_PER_MINUTE + 1
            /\ seen.inHour = RATE_LIMIT_PER_MINUTE + 1) =>
                /\ resp.status = 429
                /\ resp.retry_after = RETRY_AFTER
                /\ resp.remaining_minute = 0
        /\ (seen.inMinute = 1
            /\ seen.before = RATE_LIMIT_PER_MINUTE + 1
            /\ seen.inHour <= RATE_LIMIT_PER_MINUTE + 2) =>
                resp.status = 200

\* The first request of the minute after a minute of ceiling + 1 requests has
\* been answered, in the same hour.
C12_Witness ==
    /\ resp.checked
    /\ ~seen.outage
    /\ seen.inMinute = 1
    /\ seen.before = RATE_LIMIT_PER_MINUTE + 1
    /\ seen.inHour = RATE_LIMIT_PER_MINUTE + 2
    /\ resp.status = 200

\* C13: a request checked while Redis does not answer is allowed, and the
\* outage is logged as an error.
C13_FailOpen ==
    [][(~redisUp /\ seen' # seen) =>
            (resp'.status = 200 /\ resp'.logged = "error")]_vars

\* A request beyond the minute ceiling has been let through during an outage.
C13_Witness ==
    /\ resp.checked
    /\ resp.error = "rate_limiter_unavailable"
    /\ resp.status = 200
    /\ seen.inMinute > RATE_LIMIT_PER_MINUTE

\* ------------------------------------------------ the cached read endpoints

\* The CVEs the table can hold and the severities a merge batch brings.
CveIds == {"CVE-1", "CVE-2"}
BatchSeverities == {"CRITICAL", "HIGH"}

\* Clock ticks in the 300 seconds a cache entry lives.
TtlTicks == 2

STATS_CACHE_KEY == <<"dashboard:stats">>

\* The severity and exploited parameters of list_vulnerabilities, as the
\* cache key formats them.
CountFilters ==
    {[severity |-> None, exploited |-> "None"],
     [severity |-> None, exploited |-> "True"]}

count_cache_key(filter) ==
    <<"vuln:count", filter.severity, filter.exploited, "priority_score">>

\* The filters list_vulnerabilities puts on its query.
Matches(row, filter) ==
    /\ (filter.severity = None \/ row.severity = filter.severity)
    /\ (filter.exploited = "None"
           \/ row.exploited_in_the_wild = (filter.exploited = "True"))

\* query.count()
CountRows(rows, filter) ==
    Cardinality({id \in DOMAIN rows : Matches(rows[id], filter)})

\* The aggregation query of get_statistics.
Stats(rows) ==
    [total_vulnerabilities |-> Cardinality(DOMAIN rows),
     exploited_vulnerabilities |->
         Cardinality({id \in DOMAIN rows : rows[id].exploited_in_the_wild}),
     critical_vulnerabilities |->
         Cardinality({id \in DOMAIN rows : rows[id].severity = "CRITICAL"}),
     high_vulnerabilities |->
         Cardinality({id \in DOMAIN rows : rows[id].severity = "HIGH"})]

\* The answer get_statistics gives when the calculation itself raises.
EmptyStats ==
    [total_vulnerabilities |-> 0, exploited_vulnerabilities |-> 0,
     critical_vulnerabilities |-> 0, high_vulnerabilities |-> 0]

\* What is stored under a key: the JSON text of the statistics, the decimal
\* text of a count.
json_dumps(data) == [json |-> data]
json_loads(text) == text.json
str_of(total) == [str |-> total]
int_of(text) == text.str

\* redis_client.get(key): an error when Redis does not answer, else the live
\* entry or nothing.
cache_get(key) ==
    IF ~cacheUp THEN [status |-> "error"]
    ELSE IF key \in DOMAIN cache
         THEN [status |-> "hit", value |-> cache[key].value]
         ELSE [status |-> "miss"]

\* redis_client.setex(key, ttl, value) inside its try: nothing is stored when
\* Redis does not answer.
cache_setex(key, value) ==
    IF cacheUp
    THEN [k \in DOMAIN cache \cup {key} |->
             IF k = key THEN [value |-> value, ttl |-> TtlTicks] ELSE cache[k]]
    ELSE cache

\* get_statistics with a cache error treated as a failed calculation.
stats_answer_or_empty(cached, computed) ==
    CASE cached.status = "hit" -> json_loads(cached.value)
      [] cached.status = "error" -> EmptyStats
      [] OTHER -> computed

\* get_statistics: the cached statistics when there are any, else the ones
\* calculated from the table; an error of the cache read is swallowed.
stats_answer(cached, computed) ==
    IF cached.status = "hit" THEN json_loads(cached.value) ELSE computed

\* list_vulnerabilities: the cached total when there is one, else the count.
count_answer(cached, computed) ==
    IF cached.status = "hit" THEN int_of(cached.value) ELSE computed

\* refresh_stats_cache(db) runs refresh_vulnerability_stats_cache() inside
\* the database: the entries in Redis stay as they are.
refresh_stats_cache(entries) == entries

CacheFrame ==
    UNCHANGED <<store, lastOp, contributors, now, script, pos, left, right, txn, base,
                backfillVars, enrichVars, app, clock, redis, redisUp, resp, seen,
                sideVars>>

\* GET /stats
GetStatistics ==
    LET cached == cache_get(STATS_CACHE_KEY)
        computed == Stats(table)
    IN  /\ reply' = [op |-> "stats", body |-> stats_answer(cached, computed),
                     store |-> computed, reachable |-> cacheUp]
        /\ cache' = IF cached.status = "hit" THEN cache
                    ELSE cache_setex(STATS_CACHE_KEY, json_dumps(computed))
        /\ UNCHANGED <<table, cacheUp>>
        /\ CacheFrame

\* GET /vulnerabilities: the total of the answer.
ListVulnerabilities(filter) ==
    LET cached == cache_get(count_cache_key(filter))
        computed == CountRows(table, filter)
    IN  /\ reply' = [op |-> "count", body |-> count_answer(cached, computed),
                     store |-> computed, reachable |-> cacheUp]
        /\ cache' = IF cached.status = "hit" THEN cache
                    ELSE cache_setex(count_cache_key(filter), str_of(computed))
        /\ UNCHANGED <<table, cacheUp>>
        /\ CacheFrame

\* A page of the NVD merge commits a new row; refresh_stats_cache follows.
BatchInsertCommit(cve_id, severity) ==
    /\ cve_id \notin DOMAIN table
    /\ table' = [id \in DOMAIN table \cup {cve_id} |->
                    IF id = cve_id
                    THEN [severity |-> severity, exploited_in_the_wild |-> FALSE]
                    ELSE table[id]]
    /\ cache' = refresh_stats_cache(cache)
    /\ UNCHANGED <<cacheUp, reply>>
    /\ CacheFrame

\* The KEV refresh commits the exploited flag of a row.
BatchExploitedCommit(cve_id) ==
    /\ cve_id \in DOMAIN table
    /\ ~table[cve_id].exploited_in_the_wild
    /\ table' = [table EXCEPT ![cve_id].exploited_in_the_wild = TRUE]
    /\ UNCHANGED <<cache, cacheUp, reply>>
    /\ CacheFrame

\* scripts/clear_stats_cache.py, run by hand.
ClearStatsCache ==
    /\ cacheUp
    /\ STATS_CACHE_KEY \in DOMAIN cache
    /\ cache' = [k \in DOMAIN cache \ {STATS_CACHE_KEY} |-> cache[k]]
    /\ UNCHANGED <<table, cacheUp, reply>>
    /\ CacheFrame

\* Time passes: the entries whose time is up are gone.
CacheTick ==
    /\ cache # <<>>
    /\ cache' = [k \in {key \in DOMAIN cache : cache[key].ttl > 1} |->
                    [cache[k] EXCEPT !.ttl = @ - 1]]
    /\ UNCHANGED <<table, cacheUp, reply>>
    /\ CacheFrame

CacheGoesDown ==
    /\ cacheUp
    /\ cacheUp' = FALSE
    /\ UNCHANGED <<table, cache, reply>>
    /\ CacheFrame

\* Redis answers again, with its entries or restarted without them.
CacheComesBack(kept) ==
    /\ ~cacheUp
    /\ cacheUp' = TRUE
    /\ cache' = IF kept THEN cache ELSE <<>>
    /\ UNCHANGED <<table, reply>>
    /\ CacheFrame

CacheInit ==
    /\ store = EmptyRow
    /\ lastOp = <<"none", None, 0>>
    /\ contributors = {}
    /\ now = Today
    /\ OrderIdle
    /\ ConcIdle
    /\ EnrichIdle
    /\ BackfillIdle
    /\ RateIdle
    /\ CacheIdle
    /\ SideIdle

CacheNext ==
    \/ GetStatistics
    \/ \E filter \in CountFilters : ListVulnerabilities(filter)
    \/ \E cve_id \in CveIds : \E severity \in BatchSeverities :
          BatchInsertCommit(cve_id, severity)
    \/ \E cve_id \in CveIds : BatchExploitedCommit(cve_id)
    \/ ClearStatsCache
    \/ CacheTick
    \/ CacheGoesDown
    \/ \E kept \in BOOLEAN : CacheComesBack(kept)

SpecCache == CacheInit /\ [][CacheNext]_vars

\* C19: a stats() read never answers with statistics calculated before a
\* merge batch that has committed since: it answers what the table holds.
C19_StatsFollowCommit ==
    (reply.op = "stats") => (reply.body = reply.store)

\* C20: a read answered while the cache is unreachable, stats or the total
\* of list_vulnerabilities, answers what the table holds.
C20_FallsBackToStore ==
    (reply.op # "none" /\ ~reply.reachable) => (reply.body = reply.store)

\* stats() has answered from the table while Redis was unreachable and held
\* statistics of an earlier table.
C20_Witness ==
    /\ reply.op = "stats"
    /\ ~reply.reachable
    /\ ~cacheUp
    /\ table # <<>>
    /\ reply.body = Stats(table)
    /\ STATS_CACHE_KEY \in DOMAIN cache
    /\ json_loads(cache[STATS_CACHE_KEY].value) # reply.body

\* ------------------------------------------- the jobs and their run records

\* The variables of the models above, and their values while another model
\* runs.
baseVars ==
    <<store, lastOp, contributors, now, script, pos, left, right, txn, base,
      backfillVars, enrichVars, app, clock, redis, redisUp, resp, seen, cacheVars>>

BaseIdle ==
    /\ store = EmptyRow
    /\ lastOp = <<"none", None, 0>>
    /\ contributors = {}
    /\ now = Today
    /\ OrderIdle
    /\ ConcIdle
    /\ EnrichIdle
    /\ BackfillIdle
    /\ RateIdle
    /\ CacheIdle

\* How many ingestion runs the model follows and how many lines a file has.
MaxRuns == 2
MaxRecords == 2

\* The row run_ingestion adds before it reads the file.
IngestionRun(source, started_at) ==
    [source |-> source, status |-> "running", started_at |-> started_at,
     completed_at |-> NoNum, records_fetched |-> 0, records_inserted |-> 0,
     records_updated |-> 0, records_failed |-> 0, error_message |-> None]

\* The statistics ingest_from_ndjson can return for a file.
IngestStats ==
    {st \in [fetched : 0..MaxRecords, inserted : 0..MaxRecords,
             updated : 0..MaxRecords, failed : 0..MaxRecords] :
        st.inserted + st.updated + st.failed = st.fetched}

JobFrame == UNCHANGED <<baseVars, newsVars, dedup, kev, lookupVars>>

\* run_ingestion: the run record is added and committed.
RunIngestionStarts ==
    /\ job["run_ingestion"].pc = "idle"
    /\ Len(ingestionRuns) < MaxRuns
    /\ ingestionRuns' = Append(ingestionRuns, IngestionRun("manual", now))
    /\ job' = [job EXCEPT !["run_ingestion"] =
                  [pc |-> "running", run |-> Len(ingestionRuns) + 1,
                   result |-> None]]
    /\ JobFrame

\* run_ingestion: ingest_from_ndjson has returned its statistics.
RunIngestionSucceeds(stats) ==
    /\ job["run_ingestion"].pc = "running"
    /\ ingestionRuns' = [ingestionRuns EXCEPT ![job["run_ingestion"].run] =
          [@ EXCEPT !.status = "success", !.completed_at = now,
                    !.records_fetched = stats.fetched,
                    !.records_inserted = stats.inserted,
                    !.records_updated = stats.updated,
                    !.records_failed = stats.failed]]
    /\ job' = [job EXCEPT !["run_ingestion"].pc = "idle",
                          !["run_ingestion"].result = "success"]
    /\ JobFrame

\* run_ingestion: ingest_from_ndjson has raised; the run is marked and the
\* exception goes on.
RunIngestionFails ==
    /\ job["run_ingestion"].pc = "running"
    /\ ingestionRuns' = [ingestionRuns EXCEPT ![job["run_ingestion"].run] =
          [@ EXCEPT !.status = "failed", !.completed_at = now,
                    !.error_message = "File not found"]]
    /\ job' = [job EXCEPT !["run_ingestion"].pc = "idle",
                          !["run_ingestion"].result = "raised"]
    /\ JobFrame

\* fetch_cisa_kev_task is taken by a worker.
KevTaskStarts ==
    /\ job["fetch_cisa_kev_task"].pc = "idle"
    /\ job' = [job EXCEPT !["fetch_cisa_kev_task"] =
                  [pc |-> "running", run |-> NoNum, result |-> None]]
    /\ UNCHANGED ingestionRuns
    /\ JobFrame

\* fetch_cisa_kev_task returns what update_exploited_vulnerabilities gave, or
\* asks for a retry after an exception.
KevTaskEnds(result) ==
    /\ job["fetch_cisa_kev_task"].pc = "running"
    /\ job' = [job EXCEPT !["fetch_cisa_kev_task"].pc = "idle",
                          !["fetch_cisa_kev_task"].result = result]
    /\ UNCHANGED ingestionRuns
    /\ JobFrame

\* update_vulnerabilities_task is taken by a worker.
UpdateTaskStarts ==
    /\ job["update_vulnerabilities_task"].pc = "idle"
    /\ job' = [job EXCEPT !["update_vulnerabilities_task"] =
                  [pc |-> "running", run |-> NoNum, result |-> None]]
    /\ UNCHANGED ingestionRuns
    /\ JobFrame

\* update_vulnerabilities_task: a connector step fails, or the call of
\* ingest_from_ndjson with run_type and db keywords raises TypeError; both end
\* in the except branch.
UpdateTaskEnds ==
    /\ job["update_vulnerabilities_task"].pc = "running"
    /\ job' = [job EXCEPT !["update_vulnerabilities_task"].pc = "idle",
                          !["update_vulnerabilities_task"].result = "error"]
    /\ UNCHANGED ingestionRuns
    /\ JobFrame

JobInit ==
    /\ BaseIdle
    /\ JobIdle
    /\ NewsIdle
    /\ DedupIdle
    /\ KevIdle
    /\ LookupIdle

JobNext ==
    \/ RunIngestionStarts
    \/ \E stats \in IngestStats : RunIngestionSucceeds(stats)
    \/ RunIngestionFails
    \/ KevTaskStarts
    \/ \E result \in {"success", "error", "retry"} : KevTaskEnds(result)
    \/ UpdateTaskStarts
    \/ UpdateTaskEnds

SpecJobs == JobInit /\ [][JobNext]_vars

\* C21: a job that runs has its ingestion run in status running; a job that
\* has ended has its run finalized to success or failed with completed_at;
\* no run is left in status running without its job.
C21_RunRecordPerJob ==
    /\ \A j \in Jobs :
          /\ job[j].pc = "running" =>
                /\ job[j].run \in 1..Len(ingestionRuns)
                /\ ingestionRuns[job[j].run].status = "running"
          /\ (job[j].pc = "idle" /\ job[j].result # None) =>
                /\ job[j].run \in 1..Len(ingestionRuns)
                /\ ingestionRuns[job[j].run].status \in {"success", "failed"}
                /\ ingestionRuns[job[j].run].completed_at # NoNum
    /\ \A i \in 1..Len(ingestionRuns) :
          ingestionRuns[i].status = "running" =>
              \E j \in Jobs : job[j].pc = "running" /\ job[j].run = i

\* ------------------------------------------------------- the news fetcher

\* The URLs a feed can list, the longest feed, the limit of one fetch, how
\* many fetches the model follows and how many flushes it lets fail.
Urls == {"u1", "u2"}
MaxFeed == 3
FetchLimit == 2
MaxFetches == 2
MaxStoreFaults == 1

\* articles[:limit]
Limited(entries, limit) ==
    IF Len(entries) <= limit THEN entries ELSE SubSeq(entries, 1, limit)

\* db.commit() without a write.
commit_nothing(rows, pending) == rows

\* db.commit(): the rows flushed in the transaction become durable.
commit(rows, pending) == rows \o pending

\* db.query(NewsArticle).filter(NewsArticle.url == url).first(): the query
\* sees the committed rows and the ones flushed in its own transaction.
existing(url) == url \in Range(articles) \cup Range(news.pending)

NewsFrame == UNCHANGED <<baseVars, jobVars, dedup, kev, lookupVars>>

\* fetch_feed returns the feed and parse_rss_feed its articles.
FetchStarts ==
    /\ news.pc = "idle"
    /\ Len(fetches) < MaxFetches
    /\ news' = [IdleFetch EXCEPT !.pc = "storing", !.i = 1,
                                 !.before = Len(articles),
                                 !.stats.fetched = Len(feed)]
    /\ UNCHANGED <<feed, articles, fetches>>
    /\ NewsFrame

\* fetch_feed returns nothing: the source is marked and the empty statistics
\* are returned.
FeedFetchFails ==
    /\ news.pc = "idle"
    /\ Len(fetches) < MaxFetches
    /\ fetches' = Append(fetches,
                         [stats |-> IdleFetch.stats, stored |-> 0, faulted |-> TRUE])
    /\ UNCHANGED <<feed, articles, news>>
    /\ NewsFrame

\* One article of the loop: skipped when its URL exists, else added and
\* flushed.
StoreArticle ==
    /\ news.pc = "storing"
    /\ news.i <= Len(Limited(feed, FetchLimit))
    /\ news' = IF existing(feed[news.i])
               THEN [news EXCEPT !.i = @ + 1]
               ELSE [news EXCEPT !.i = @ + 1,
                                 !.pending = Append(@, feed[news.i]),
                                 !.stats.new = @ + 1]
    /\ UNCHANGED <<feed, articles, fetches>>
    /\ NewsFrame

\* The flush of a new article raises: db.rollback() ends the transaction and
\* the loop goes on.
StoreArticleFails ==
    /\ news.pc = "storing"
    /\ news.i <= Len(Limited(feed, FetchLimit))
    /\ ~existing(feed[news.i])
    /\ Cardinality({k \in 1..Len(fetches) : fetches[k].faulted})
           + (IF news.faulted THEN 1 ELSE 0) < MaxStoreFaults
    /\ news' = [news EXCEPT !.i = @ + 1, !.pending = <<>>,
                            !.faulted = TRUE, !.stats.errors = @ + 1]
    /\ UNCHANGED <<feed, articles, fetches>>
    /\ NewsFrame

\* The loop is over: the source is updated and the transaction committed.
FetchReturns ==
    /\ news.pc = "storing"
    /\ news.i > Len(Limited(feed, FetchLimit))
    /\ articles' = commit(articles, news.pending)
    /\ fetches' = Append(fetches,
                         [stats |-> news.stats,
                          stored |-> Len(articles') - news.before,
                          faulted |-> news.faulted])
    /\ news' = IdleFetch
    /\ UNCHANGED feed
    /\ NewsFrame

NewsInit ==
    /\ BaseIdle
    /\ JobIdle
    /\ feed \in UNION {[1..n -> Urls] : n \in 0..MaxFeed}
    /\ articles = <<>>
    /\ news = IdleFetch
    /\ fetches = <<>>
    /\ DedupIdle
    /\ KevIdle
    /\ LookupIdle

NewsNext ==
    \/ FetchStarts
    \/ FeedFetchFails
    \/ StoreArticle
    \/ StoreArticleFails
    \/ FetchReturns

SpecNews == NewsInit /\ [][NewsNext]_vars

\* The URLs a fetch of the feed handles.
FeedUrls == Range(Limited(feed, FetchLimit))

\* C22: of two fetches of the same feed that both go through, the first
\* stores one new article per URL and the second none; no URL is ever
\* stored twice.
C22_SecondFetchStoresNothing ==
    /\ \A i, j \in 1..Len(articles) : i # j => articles[i] # articles[j]
    /\ (Len(fetches) >= 1 /\ ~fetches[1].faulted) =>
          /\ fetches[1].stats.new = Cardinality(FeedUrls)
          /\ Range(articles) = FeedUrls
    /\ (Len(fetches) = 2 /\ ~fetches[1].faulted /\ ~fetches[2].faulted) =>
          /\ fetches[2].stats.new = 0
          /\ fetches[2].stored = 0

\* Two fetches of a feed that lists a URL twice have returned.
C22_Witness ==
    /\ Len(fetches) = 2
    /\ ~fetches[1].faulted /\ ~fetches[2].faulted
    /\ Len(feed) = MaxFeed
    /\ feed[1] = feed[2]
    /\ fetches[1].stats.new = Cardinality(FeedUrls)
    /\ fetches[2].stats.new = 0
    /\ Len(articles) = Cardinality(FeedUrls)

\* C30: the new count a fetch returns is the number of its articles that
\* are in the store when it has returned.
C30_NewCountIsStored ==
    \A k \in 1..Len(fetches) : fetches[k].stats.new = fetches[k].stored

\* ------------------------------------------------------------ the scorers

\* The attributes the scorers are applied to: CVSS scores in tenths, days of
\* publication around the recency steps and after today.
ScoreCvss == {NoNum, 0, 1, 40, 75, 100}
ScoreSeverities == {"CRITICAL", "HIGH", "MEDIUM", "LOW", "UNKNOWN"}
ScorePublished ==
    {NoNum, Today - 400, Today - 31, Today - 30, Today - 10, Today - 7,
     Today, Today + 5}

ScoredRows ==
    {[EmptyRow EXCEPT !.exists = TRUE, !.cvss_score = c, !.severity = s,
                      !.published_at = p, !.exploited_in_the_wild = e] :
        c \in ScoreCvss, s \in ScoreSeverities, p \in ScorePublished,
        e \in BOOLEAN}

\* The NVD merge and the KEV refresh score the row.
ScoreByCalculatePriority ==
    /\ lastOp[1] = "none"
    /\ store' = [store EXCEPT !.priority_score =
                    calculate_priority(store.cvss_score, store.severity,
                                       store.published_at,
                                       store.exploited_in_the_wild, now)]
    /\ lastOp' = <<"_calculate_priority", None, 1>>
    /\ UNCHANGED contributors
    /\ MergeFrame

\* The NDJSON upsert scores the record.
ScoreByCalculatePriorityScore ==
    /\ lastOp[1] = "none"
    /\ store' = [store EXCEPT !.priority_score =
                    calculate_priority_score(
                        [cvss_score |-> store.cvss_score,
                         exploited_in_the_wild |-> store.exploited_in_the_wild,
                         published |-> store.published_at], now)]
    /\ lastOp' = <<"calculate_priority_score", None, 1>>
    /\ UNCHANGED contributors
    /\ MergeFrame

ScoreInit ==
    /\ store \in ScoredRows
    /\ lastOp = <<"none", None, 0>>
    /\ contributors = {}
    /\ now = Today
    /\ OrderIdle
    /\ ConcIdle
    /\ EnrichIdle
    /\ BackfillIdle
    /\ ApiIdle

ScoreNext ==
    \/ ScoreByCalculatePriority
    \/ ScoreByCalculatePriorityScore

SpecScore == ScoreInit /\ [][ScoreNext]_vars

\* The score of section 4.4 for a row: 0.4 base_cvss + 0.2 recency +
\* 0.4 exploit, clamped to [0, 1] and rounded to three decimals, in units of
\* 1/3000.
Score44(row, today) ==
    LET base_cvss ==
            IF row.cvss_score # NoNum THEN 12 * row.cvss_score
            ELSE IF row.severity = "CRITICAL" THEN 1200
            ELSE IF row.severity = "HIGH" THEN 840
            ELSE IF row.severity = "MEDIUM" THEN 480
            ELSE IF row.severity = "LOW" THEN 240
            ELSE 0
        age == today - row.published_at
        recency == IF row.published_at = NoNum THEN 0
                   ELSE IF age <= 7 THEN 600
                   ELSE IF age <= 30 THEN 300
                   ELSE 0
        exploit == IF row.exploited_in_the_wild THEN 1200 ELSE 0
        score == Round3(base_cvss + recency + exploit)
    IN  IF score > 3000 THEN 3000 ELSE IF score < 0 THEN 0 ELSE score

\* C23: after every write the stored priority_score is the score of section
\* 4.4 of the stored attributes.
C23_StoredScoreIsScore44 ==
    store.exists => store.priority_score = Score44(store, now)

\* C24: a computed score lies in [0, 1], and it is at least 0.4 when the
\* vulnerability is exploited.
C24_ScoreInRange ==
    (lastOp[1] \in {"_calculate_priority", "calculate_priority_score"}) =>
        /\ 0 <= store.priority_score
        /\ store.priority_score <= 3000
        /\ store.exploited_in_the_wild => store.priority_score >= 1200

\* An exploited vulnerability with the highest CVSS score, published after
\* today, has been scored by the NDJSON upsert.
C24_Witness ==
    /\ lastOp[1] = "calculate_priority_score"
    /\ store.exploited_in_the_wild
    /\ store.cvss_score = 100
    /\ store.published_at > now
    /\ store.priority_score = 3000

\* -------------------------------------------------------- the deduplicator

\* The source tags the connectors write: cisa_kev.py, nvd_cve.py,
\* nvd_recent.py and eu_cve.py.
ConnectorSources == {"cisa_kev", "nvd_cve", "nvd", "eu_cve_search"}

\* The most records of one CVE the model merges.
MaxSources == 3

\* A connector's record of the CVE: its description names the connector it
\* comes from.
ConnectorRecord(source, described, published, exploited) ==
    [source |-> source,
     description |-> IF described THEN source ELSE None,
     published |-> published,
     exploited_in_the_wild |-> exploited]

ConnectorRecords ==
    {ConnectorRecord(src, described, published, src = "cisa_kev") :
        src \in ConnectorSources, described \in BOOLEAN,
        published \in {NoNum, Today - 20, Today - 3}}

\* source_priority.get(source, 99)
source_priority(source) ==
    CASE source = "cisa" -> 1
      [] source = "nvd_cve" -> 2
      [] source = "nvd" -> 3
      [] source = "eu_cve_search" -> 4
      [] OTHER -> 99

\* sorted(records, key = source priority): stable.
SortedByPriority(records) ==
    LET Has(p) == SelectSeq(records, LAMBDA r : source_priority(r.source) = p)
    IN  Has(1) \o Has(2) \o Has(3) \o Has(4) \o Has(99)

\* One pass of the loop of merge_cve_records over a lower-priority record.
MergeInto(merged, record) ==
    [merged EXCEPT
        !.description = IF ~TruthyStr(@) /\ TruthyStr(record.description)
                        THEN record.description ELSE @,
        !.published = IF record.published # NoNum
                         /\ (@ = NoNum \/ record.published > @)
                      THEN record.published ELSE @,
        !.exploited_in_the_wild = @ \/ record.exploited_in_the_wild]

RECURSIVE MergeAll(_, _)
MergeAll(merged, rest) ==
    IF rest = <<>> THEN merged
    ELSE MergeAll(MergeInto(merged, Head(rest)), Tail(rest))

\* merge_cve_records on two or more records; the result carries the set of
\* the sources.
merge_cve_records(records) ==
    LET sorted == SortedByPriority(records)
        first == [source |-> sorted[1].source,
                  description |-> sorted[1].description,
                  published |-> sorted[1].published,
                  exploited_in_the_wild |-> sorted[1].exploited_in_the_wild,
                  sources |-> {records[i].source : i \in 1..Len(records)}]
    IN  MergeAll(first, Tail(sorted))

DedupFrame == UNCHANGED <<baseVars, jobVars, newsVars, kev, lookupVars>>

\* deduplicate_cves merges the records of the CVE.
Deduplicate ==
    /\ ~dedup.done
    /\ dedup' = [dedup EXCEPT !.merged = merge_cve_records(dedup.records),
                              !.done = TRUE]
    /\ DedupFrame

\* The connectors' files hold two or more records of the CVE, one per
\* connector, in any order.
DedupInit ==
    /\ BaseIdle
    /\ JobIdle
    /\ NewsIdle
    /\ KevIdle
    /\ LookupIdle
    /\ \E n \in 2..MaxSources : \E records \in [1..n -> ConnectorRecords] :
          /\ \A i, j \in 1..n : i # j => records[i].source # records[j].source
          /\ dedup = [records |-> records, merged |-> <<>>, done |-> FALSE]

DedupNext == Deduplicate

SpecDedup == DedupInit /\ [][DedupNext]_vars

\* The order of the sources the claim gives: CISA KEV, NVD CVE, NVD Recent,
\* EU CVE Search.
Rank(source) ==
    CASE source = "cisa_kev" -> 1
      [] source = "nvd_cve" -> 2
      [] source = "nvd" -> 3
      [] OTHER -> 4

\* C25: the merged description is the one of the highest-ranked source that
\* has a description.
C25_HigherSourceKept ==
    dedup.done =>
        \A i \in 1..Len(dedup.records) :
            LET r == dedup.records[i]
            IN  (/\ r.description # None
                 /\ \A j \in 1..Len(dedup.records) :
                       dedup.records[j].description # None =>
                           Rank(r.source) <= Rank(dedup.records[j].source))
                    => dedup.merged.description = r.description

\* ------------------------------------------------- the KEV refresh's fetch

\* The CVEs NVD lists with hasKev, how many of them one page holds (2000 in
\* the code) and the longest list.
KevCves == <<"CVE-1", "CVE-2", "CVE-3">>
KevPerPage == 1
MaxKev == 3

\* The page NVD answers for a start index.
KevPage(catalog, start_index) ==
    LET last == IF start_index + KevPerPage < Len(catalog)
                THEN start_index + KevPerPage ELSE Len(catalog)
    IN  IF start_index >= Len(catalog) THEN <<>>
        ELSE SubSeq(catalog, start_index + 1, last)

KevFrame == UNCHANGED <<baseVars, jobVars, newsVars, dedup, lookupVars>>

\* update_exploited_vulnerabilities is called: fetch_kev_cves begins.
KevStarts(total, stored) ==
    /\ kev.pc = "idle"
    /\ kev' = [IdleKev EXCEPT !.pc = "fetching",
                              !.catalog = SubSeq(KevCves, 1, total),
                              !.stored = stored]
    /\ KevFrame

\* fetch_kev_cves: one request is answered.
KevFetchPage ==
    /\ kev.pc = "fetching"
    /\ LET vulnerabilities == KevPage(kev.catalog, kev.start_index)
           all_cves == kev.all_cves \o vulnerabilities
       IN  kev' = IF vulnerabilities = <<>>
                  THEN [kev EXCEPT !.pc = "fetched"]
                  ELSE IF Len(all_cves) >= Len(kev.catalog)
                  THEN [kev EXCEPT !.pc = "fetched", !.all_cves = all_cves]
                  ELSE [kev EXCEPT !.all_cves = all_cves,
                                   !.start_index = @ + KevPerPage]
    /\ KevFrame

\* fetch_kev_cves: a request raises; the loop is left with what it has.
KevFetchFails ==
    /\ kev.pc = "fetching"
    /\ kev' = [kev EXCEPT !.pc = "fetched", !.failed = TRUE]
    /\ KevFrame

\* update_exploited_vulnerabilities on what fetch_kev_cves returned.
KevUpdate ==
    /\ kev.pc = "fetched"
    /\ LET found == Range(kev.all_cves) \cap kev.stored
           missing == Range(kev.all_cves) \ kev.stored
       IN  kev' = IF kev.all_cves = <<>>
                  THEN [kev EXCEPT !.pc = "done",
                                   !.result = [status |-> "error", updated |-> 0,
                                               not_found |-> 0]]
                  ELSE [kev EXCEPT !.pc = "done",
                                   !.exploited = found,
                                   !.result = [status |-> "success",
                                               updated |-> Cardinality(found),
                                               not_found |-> Cardinality(missing)]]
    /\ KevFrame

KevInit ==
    /\ BaseIdle
    /\ JobIdle
    /\ NewsIdle
    /\ DedupIdle
    /\ KevIdle
    /\ LookupIdle

KevNext ==
    \/ \E total \in 0..MaxKev : \E stored \in SUBSET Range(KevCves) :
          KevStarts(total, stored)
    \/ KevFetchPage
    \/ KevFetchFails
    \/ KevUpdate

SpecKev == KevInit /\ [][KevNext]_vars

\* C26: when the fetch has failed, the refresh reports error with no row
\* updated and none missing, and marks no row.
C26_FailedFetchReportsError ==
    (kev.pc = "done" /\ kev.failed) =>
        /\ kev.result.status = "error"
        /\ kev.result.updated = 0
        /\ kev.result.not_found = 0
        /\ kev.exploited = {}

\* ------------------------------------------------- one vulnerability by id

\* Spellings of identifiers that reach the pipeline and the endpoint.
IdSpellings ==
    {"CVE-2024-0001", "cve-2024-0001", "Cve-2024-0001",
     "CVE-2024-TEST", "cve-2024-test", "CVE-9999-FAKE", "INVALID"}

\* str.upper() on those spellings (none has surrounding blanks to strip).
upper(s) ==
    CASE s = "cve-2024-0001" -> "CVE-2024-0001"
      [] s = "Cve-2024-0001" -> "CVE-2024-0001"
      [] s = "cve-2024-test" -> "CVE-2024-TEST"
      [] OTHER -> s

\* The spellings CVE_ID_PATTERN, ^CVE-\d{4}-\d{4,}$, matches.
CVE_ID_PATTERN == {"CVE-2024-0001"}

\* validate_cve_id: the upper-case id, or the 400 it raises.
validate_cve_id(cve_id) ==
    IF upper(cve_id) \in CVE_ID_PATTERN
    THEN [status |-> 200, cve_id |-> upper(cve_id)]
    ELSE [status |-> 400, cve_id |-> None]

LookupFrame == UNCHANGED <<baseVars, jobVars, newsVars, dedup, kev>>

\* ingest_vulnerability: a record that has a cve_id is looked up, and
\* inserted, under the cve_id it carries.
IngestVulnerability(cve_id) ==
    /\ vulnIds' = vulnIds \cup {cve_id}
    /\ UNCHANGED lookup
    /\ LookupFrame

\* GET /vulnerabilities/{cve_id}.
GetVulnerability(requested) ==
    /\ LET valid == validate_cve_id(requested)
       IN  lookup' =
               IF valid.status = 400
               THEN [requested |-> requested, status |-> 400, cve_id |-> None,
                     present |-> vulnIds]
               ELSE IF valid.cve_id \in vulnIds
               THEN [requested |-> requested, status |-> 200,
                     cve_id |-> valid.cve_id, present |-> vulnIds]
               ELSE [requested |-> requested, status |-> 404, cve_id |-> None,
                     present |-> vulnIds]
    /\ UNCHANGED vulnIds
    /\ LookupFrame

LookupInit ==
    /\ BaseIdle
    /\ JobIdle
    /\ NewsIdle
    /\ DedupIdle
    /\ KevIdle
    /\ LookupIdle

LookupNext ==
    \/ \E cve_id \in IdSpellings : IngestVulnerability(cve_id)
    \/ \E requested \in IdSpellings : GetVulnerability(requested)

SpecLookup == LookupInit /\ [][LookupNext]_vars

\* C27: every stored cve_id is in upper case, and a request is answered with
\* the stored row whenever some stored id equals the requested one up to
\* letter case.
C27_FoundInAnyCase ==
    /\ \A id \in vulnIds : upper(id) = id
    /\ lookup.status # 0 =>
          \A id \in lookup.present :
              upper(id) = upper(lookup.requested) =>
                  /\ lookup.status = 200
                  /\ lookup.cve_id = id

\* C28: a request is answered 200 with the row when a row with the requested
\* id is stored, and 404 when none is.
C28_RowOr404 ==
    lookup.status # 0 =>
        IF lookup.requested \in lookup.present
        THEN lookup.status = 200 /\ lookup.cve_id = lookup.requested
        ELSE lookup.status = 404

\* ------------------------------------------------- the backfill's cursor

\* Every index of the upstream listing.
UpstreamIndices == 0..(TotalResults - 1)

\* C29: the startIndex a run is about to request is the cursor the checkpoint
\* file holds (0 when there is none), and a run that has completed, crashes
\* and resumes included, leaves every upstream index merged into the store.
C29_NoIndexSkipped ==
    /\ \A t \in Threads :
          run[t].pc = "fetch" => run[t].startIndex = load_checkpoint(checkpoint)
    /\ \A t \in Threads :
          run[t].outcome = "done" => committed = UpstreamIndices

\* A run that resumed at a saved cursor after a crash has completed.
C29_Witness ==
    /\ crashes > 0
    /\ resumeAt # NoNum
    /\ resumeAt > 0
    /\ \E t \in Threads : run[t].outcome = "done"
    /\ committed = UpstreamIndices

====
